---- MODULE Spec2Model ----
(***************************************************************************)
(* A model of the Ryu double-to-decimal conversions of this repository:    *)
(* the shortest conversion (d2d, d2d_small_int, to_chars,                  *)
(* d2s_buffered_n: src/ryu/d2s.c) and the fixed and exponential            *)
(* conversions (d2fixed_buffered_n, d2exp_buffered_n: src/ryu/d2fixed.c).  *)
(*                                                                         *)
(* TLC's integers are 32 bits wide, the program's are 64 and its products  *)
(* 192: every program integer that can exceed 31 bits is held as a         *)
(* sequence of 15-bit limbs, least significant first, with no leading zero *)
(* limb (zero is the empty sequence).  The Bn operators are that           *)
(* arithmetic; they are exact, and the places where the program truncates  *)
(* to 64 bits are written out with BnModPow2.                              *)
(***************************************************************************)
EXTENDS Integers, Sequences, FiniteSets, TLC

LIMB == 2 ^ 15
LIMB_BITS == CHOOSE k \in 1 .. 30 : 2 ^ k = LIMB

Pow2Small(k) == 2 ^ k

Max(a, b) == IF a >= b THEN a ELSE b
Min(a, b) == IF a <= b THEN a ELSE b

Bool2Int(b) == IF b THEN 1 ELSE 0

\* TLC evaluates an operator's arguments only when they are first read, so a
\* chain of n dependent steps is evaluated n levels deep.  Then(x, e) is e,
\* with x evaluated first.
Then(x, e) == IF x = x THEN e ELSE e

\* the largest element of a nonempty set of numbers
BnTop(S) == CHOOSE i \in S : \A j \in S : j <= i

\* the limbs of a without its leading zero limbs
BnTrimTo(a, nz) == IF nz = {} THEN <<>> ELSE SubSeq(a, 1, BnTop(nz))
BnTrim(a) == BnTrimTo(a, {i \in 1 .. Len(a) : a[i] # 0})

\* the limbs of a small number, 0 <= n < 2^31
BnOf(n) ==
  IF n = 0 THEN <<>>
  ELSE IF n < LIMB THEN <<n>>
  ELSE IF n < LIMB * LIMB THEN <<n % LIMB, n \div LIMB>>
  ELSE <<n % LIMB, (n \div LIMB) % LIMB, n \div (LIMB * LIMB)>>

\* the value of a number known to be below 2^31
BnSmall(a) ==
  (IF Len(a) >= 1 THEN a[1] ELSE 0)
  + (IF Len(a) >= 2 THEN a[2] * LIMB ELSE 0)
  + (IF Len(a) >= 3 THEN a[3] * LIMB * LIMB ELSE 0)

BnLimb(a, i) == IF i <= Len(a) THEN a[i] ELSE 0

\* <<limbs, carry>> of two adjacent ranges, low range first
BnJoin(L, H) == <<L[1] \o H[1], H[2]>>

\* a result <<limbs, carry>> with its carry as one more limb
BnCarryOut(r) == IF r[2] = 0 THEN r[1] ELSE Append(r[1], r[2])

\* Limbs lo..hi of a + b with carry c in: <<limbs, carry out>>.  The ranges are
\* halved, so the evaluation is log(hi - lo) deep.
RECURSIVE BnAddRange(_, _, _, _, _)
BnAddHigh(a, b, mid, hi, L) == BnJoin(L, BnAddRange(a, b, mid + 1, hi, L[2]))
BnAddRange(a, b, lo, hi, c) ==
  IF lo = hi
  THEN <<(<<(BnLimb(a, lo) + BnLimb(b, lo) + c) % LIMB>>),
         (BnLimb(a, lo) + BnLimb(b, lo) + c) \div LIMB>>
  ELSE BnAddHigh(a, b, (lo + hi) \div 2, hi, BnAddRange(a, b, lo, (lo + hi) \div 2, c))

BnAdd(a, b) ==
  IF a = <<>> THEN b
  ELSE IF b = <<>> THEN a
  ELSE BnCarryOut(BnAddRange(a, b, 1, Max(Len(a), Len(b)), 0))

\* Limbs lo..hi of a - b with borrow c in: <<limbs, borrow out>>.
RECURSIVE BnSubRange(_, _, _, _, _)
BnSubHigh(a, b, mid, hi, L) == BnJoin(L, BnSubRange(a, b, mid + 1, hi, L[2]))
BnSubRange(a, b, lo, hi, c) ==
  IF lo = hi
  THEN <<(<<(BnLimb(a, lo) - BnLimb(b, lo) - c) % LIMB>>),
         Bool2Int(BnLimb(a, lo) - BnLimb(b, lo) - c < 0)>>
  ELSE BnSubHigh(a, b, (lo + hi) \div 2, hi, BnSubRange(a, b, lo, (lo + hi) \div 2, c))

\* a - b, for a >= b
BnSub(a, b) == IF a = <<>> THEN a ELSE BnTrim(BnSubRange(a, b, 1, Len(a), 0)[1])

\* -1, 0, 1 as a < b, a = b, a > b
BnCmpAt(a, b, df) ==
  IF df = {} THEN 0 ELSE IF a[BnTop(df)] < b[BnTop(df)] THEN -1 ELSE 1

BnCmp(a, b) ==
  IF Len(a) < Len(b) THEN -1
  ELSE IF Len(a) > Len(b) THEN 1
  ELSE BnCmpAt(a, b, {i \in 1 .. Len(a) : a[i] # b[i]})

BnLt(a, b) == BnCmp(a, b) < 0
BnLe(a, b) == BnCmp(a, b) <= 0

\* Limbs lo..hi of a * k with carry c in, for 0 <= k <= 32768.
RECURSIVE BnMulSmallRange(_, _, _, _, _)
BnMulSmallHigh(a, k, mid, hi, L) == BnJoin(L, BnMulSmallRange(a, k, mid + 1, hi, L[2]))
BnMulSmallRange(a, k, lo, hi, c) ==
  IF lo = hi
  THEN <<(<<(a[lo] * k + c) % LIMB>>), (a[lo] * k + c) \div LIMB>>
  ELSE BnMulSmallHigh(a, k, (lo + hi) \div 2, hi,
                      BnMulSmallRange(a, k, lo, (lo + hi) \div 2, c))

BnMulSmall(a, k) ==
  IF k = 0 \/ a = <<>> THEN <<>>
  ELSE BnCarryOut(BnMulSmallRange(a, k, 1, Len(a), 0))

\* Limbs lo..hi of a \div k with remainder r in, for 1 <= k <= 65536:
\* <<limbs, remainder out>>.  The remainder runs from the high limbs down.
RECURSIVE BnDivRange(_, _, _, _, _)
BnDivJoin(L, H) == <<L[1] \o H[1], L[2]>>
BnDivLow(a, k, lo, mid, H) == Then(H, BnDivJoin(BnDivRange(a, k, lo, mid, H[2]), H))
BnDivRange(a, k, lo, hi, r) ==
  IF lo = hi
  THEN <<(<<(r * LIMB + a[lo]) \div k>>), (r * LIMB + a[lo]) % k>>
  ELSE BnDivLow(a, k, lo, (lo + hi) \div 2, BnDivRange(a, k, (lo + hi) \div 2 + 1, hi, r))

\* <<limbs of a \div k, a % k>>
BnDivMod(a, k) ==
  IF a = <<>> THEN <<(<<>>), 0>> ELSE BnDivRange(a, k, 1, Len(a), 0)

BnDivSmall(a, k) == BnTrim(BnDivMod(a, k)[1])
BnModSmall(a, k) == BnDivMod(a, k)[2]

BnShiftLimbs(a, n) == IF a = <<>> THEN a ELSE [i \in 1 .. n |-> 0] \o a

\* a times limbs lo..hi of b
RECURSIVE BnMulRange(_, _, _, _)
BnMulRange(a, b, lo, hi) ==
  IF lo = hi THEN BnMulSmall(a, b[lo])
  ELSE BnAdd(BnMulRange(a, b, lo, (lo + hi) \div 2),
             BnShiftLimbs(BnMulRange(a, b, (lo + hi) \div 2 + 1, hi),
                          (lo + hi) \div 2 + 1 - lo))

BnMul(a, b) ==
  IF a = <<>> \/ b = <<>> THEN <<>>
  ELSE IF Len(a) >= Len(b) THEN BnMulRange(a, b, 1, Len(b))
  ELSE BnMulRange(b, a, 1, Len(a))

\* a * 2^k and floor(a / 2^k)
BnShl(a, k) == BnShiftLimbs(BnMulSmall(a, Pow2Small(k % LIMB_BITS)), k \div LIMB_BITS)

BnShr(a, k) ==
  IF k \div LIMB_BITS >= Len(a) THEN <<>>
  ELSE BnDivSmall(SubSeq(a, k \div LIMB_BITS + 1, Len(a)), Pow2Small(k % LIMB_BITS))

\* a mod 2^k
BnModPow2(a, k) ==
  IF k \div LIMB_BITS >= Len(a) THEN a
  ELSE BnTrim(SubSeq(a, 1, k \div LIMB_BITS)
              \o <<a[k \div LIMB_BITS + 1] % Pow2Small(k % LIMB_BITS)>>)

\* a * k^n, for 0 <= k <= 32768
RECURSIVE BnMulPow(_, _, _)
BnMulPowRest(h, k, n) == Then(h, BnMulPow(h, k, n))
BnMulPow(a, k, n) ==
  IF n = 0 THEN a
  ELSE IF n = 1 THEN BnMulSmall(a, k)
  ELSE BnMulPowRest(BnMulPow(a, k, n \div 2), k, n - (n \div 2))

\* a * 5^n and a * 10^n, six and four factors at a time
BnMulPow5(a, n) == BnMulPow(BnMulPow(a, 15625, n \div 6), 5, n % 6)
BnMulPow10(a, n) == BnMulPow(BnMulPow(a, 10000, n \div 4), 10, n % 4)

\* floor(a / k^n), for 1 <= k <= 65536
RECURSIVE BnDivPow(_, _, _)
BnDivPowRest(h, k, n) == Then(h, BnDivPow(h, k, n))
BnDivPow(a, k, n) ==
  IF n = 0 THEN a
  ELSE IF n = 1 THEN BnDivSmall(a, k)
  ELSE BnDivPowRest(BnDivPow(a, k, n \div 2), k, n - (n \div 2))

BnDivPow5(a, n) == BnDivPow(BnDivPow(a, 15625, n \div 6), 5, n % 6)
BnDivPow10(a, n) == BnDivPow(BnDivPow(a, 10000, n \div 4), 10, n % 4)

BnIsEven(a) == a = <<>> \/ a[1] % 2 = 0


(***************************************************************************)
(* 64-bit unsigned arithmetic and the intrinsics.                          *)
(***************************************************************************)
U64(a) == BnModPow2(a, 64)
U32(a) == BnModPow2(a, 32)
Two(k) == BnShl(<<1>>, k)
Pow10(n) == BnMulPow10(<<1>>, n)

\* a 64-bit number from its four 16-bit words, most significant first
Hex64(w3, w2, w1, w0) ==
  BnAdd(BnShl(BnOf(w3), 48), BnAdd(BnShl(BnOf(w2), 32), BnAdd(BnShl(BnOf(w1), 16), BnOf(w0))))

\* x - 1 and x + 1 in 64 bits
Dec64(x) == IF x = <<>> THEN BnSub(Two(64), <<1>>) ELSE BnSub(x, <<1>>)
Inc64(x) == U64(BnAdd(x, <<1>>))

\* the two 64-bit words of a 128-bit number
Words128(p) == [lo |-> U64(p), hi |-> BnShr(p, 64)]

umul128(a, b) == Words128(BnMul(a, b))

\* the x64 intrinsic: the shift distance is taken modulo 64
shiftright128(lo, hi, dist) ==
  U64(BnShr(BnAdd(BnShl(hi, 64), lo), dist % 64))

div5(x) == BnDivSmall(x, 5)
div10(x) == BnDivSmall(x, 10)
div100(x) == BnDivSmall(x, 100)
div1e8(x) == BnDivSmall(BnDivSmall(x, 10000), 10000)
div1e9(x) == BnDivSmall(BnDivSmall(BnDivSmall(x, 10000), 10000), 10)

\* static_cast<uint32_t>(x) - k * static_cast<uint32_t>(q), in 32 bits
Lo32MinusTimes(x, k, q) ==
  BnSmall(U32(BnSub(BnAdd(U32(x), BnShl(BnOf(k), 32)), BnMul(U32(q), BnOf(k)))))

\* static_cast<uint32_t>(x - 1000000000 * div1e9(x))
mod1e9(x) ==
  BnSmall(U32(BnSub(x, BnMulPow10(div1e9(x), 9))))

\* The branch for the platforms without _WIN64: the high 64 bits of a * b, and
\* the divisions by a constant as a multiplication and a shift.  The
\* multipliers are 0xCCCCCCCCCCCCCCCD, 0x28F5C28F5C28F5C3, 0xABCC77118461CEFD
\* and 0x44B82FA09B5A53.
umulh(a, b) == umul128(a, b).hi

div5_umulh(x) == BnShr(umulh(x, Hex64(52428, 52428, 52428, 52429)), 2)
div10_umulh(x) == BnShr(umulh(x, Hex64(52428, 52428, 52428, 52429)), 3)
div100_umulh(x) == BnShr(umulh(BnShr(x, 2), Hex64(10485, 49807, 23592, 62915)), 2)
div1e8_umulh(x) == BnShr(umulh(x, Hex64(43980, 30481, 33889, 52989)), 26)
\* div1e9 without the shift of x by 9 before the multiplication
div1e9_umulh_Unshifted(x) == BnShr(umulh(x, Hex64(68, 47151, 41115, 23123)), 11)

div1e9_umulh(x) == BnShr(umulh(BnShr(x, 9), Hex64(68, 47151, 41115, 23123)), 11)

\* static_cast<uint32_t>(x) - 1000000000 * static_cast<uint32_t>(div1e9(x)),
\* as a 32-bit number
mod1e9_umulh(x) ==
  U32(BnSub(BnAdd(U32(x), BnShl(Pow10(9), 32)), BnMulPow10(U32(div1e9_umulh(x)), 9)))

RECURSIVE pow5FactorFrom(_, _)
pow5FactorStep(value, q, count) ==
  IF Lo32MinusTimes(value, 5, q) # 0 THEN count ELSE pow5FactorFrom(q, count + 1)
pow5FactorFrom(value, count) == pow5FactorStep(value, div5(value), count)

pow5Factor(value) == pow5FactorFrom(value, 0)

multipleOfPowerOf5(value, p) == pow5Factor(value) >= p

multipleOfPowerOf2(value, p) == BnModPow2(value, p) = <<>>

pow5bits(e) == ((e * 1217359) \div 524288) + 1
log10Pow2(e) == (e * 78913) \div 262144
log10Pow5(e) == (e * 732923) \div 1048576

\* The same three with the multiplication as the program makes it, of two
\* uint32_t in 32 bits, for arguments whose product is above 2^31.
Mul32(e, k) == U32(BnMul(BnOf(e), BnOf(k)))

\* pow5bits with the product in 31 bits, as of two int32_t
pow5bits32_Signed(e) == BnSmall(BnShr(BnModPow2(BnMul(BnOf(e), BnOf(1217359)), 31), 19)) + 1

pow5bits32(e) == BnSmall(BnShr(Mul32(e, 1217359), 19)) + 1
log10Pow2_32(e) == BnSmall(BnShr(Mul32(e, 78913), 18))
log10Pow5_32(e) == BnSmall(BnShr(Mul32(e, 732923), 20))

\* the largest arguments the three accept
pow5bitsLast == 3528
log10Pow2Last == 1650
log10Pow5Last == 2620

DOUBLE_MANTISSA_BITS == 52
DOUBLE_EXPONENT_BITS == 11
DOUBLE_BIAS == 1023
DOUBLE_POW5_INV_BITCOUNT == 122
DOUBLE_POW5_BITCOUNT == 121

(***************************************************************************)
(* The two multiplier tables of d2d are not among the sources; they are    *)
(* the values the specification gives for them: the inverse table holds    *)
(* floor(2^k / 5^q) + 1 with k = pow5bits(q) - 1 + POW5_INV_BITCOUNT, the  *)
(* other floor(5^i / 2^k) with k = pow5bits(i) - POW5_BITCOUNT, each as    *)
(* two 64-bit words, low word first.                                       *)
(***************************************************************************)
SplitWords(x) == <<U64(x), BnShr(x, 64)>>

DOUBLE_POW5_INV_SPLIT(q) ==
  SplitWords(BnAdd(BnDivPow5(Two(pow5bits(q) - 1 + DOUBLE_POW5_INV_BITCOUNT), q), <<1>>))

DOUBLE_POW5_SPLIT(i) ==
  SplitWords(IF pow5bits(i) >= DOUBLE_POW5_BITCOUNT
             THEN BnShr(BnMulPow5(<<1>>, i), pow5bits(i) - DOUBLE_POW5_BITCOUNT)
             ELSE BnShl(BnMulPow5(<<1>>, i), DOUBLE_POW5_BITCOUNT - pow5bits(i)))

(***************************************************************************)
(* d2s.c: mulShift and mulShiftAll (the variant with the 64-bit            *)
(* intrinsics), decimalLength17 and d2d.                                   *)
(***************************************************************************)
\* the tail of mulShift: b0 and b1 are the products of m with mul[0], mul[1]
mulShiftSum(b0, b1, sum, j) ==
  shiftright128(sum, IF BnLt(sum, b0.hi) THEN Inc64(b1.hi) ELSE b1.hi, j - 64)

mulShiftWords(b0, b1, j) == mulShiftSum(b0, b1, U64(BnAdd(b0.hi, b1.lo)), j)

mulShift(m, mul, j) == mulShiftWords(umul128(m, mul[1]), umul128(m, mul[2]), j)

\* vp, vm and the returned vr
mulShiftAll(m, mul, j, mmShift) ==
  [vp |-> mulShift(BnAdd(BnMulSmall(m, 4), <<2>>), mul, j),
   vm |-> mulShift(BnSub(BnMulSmall(m, 4), BnOf(1 + mmShift)), mul, j),
   vr |-> mulShift(BnMulSmall(m, 4), mul, j)]

\* The builds: "x64" defines _M_X64, _WIN64 and HAS_64_BIT_INTRINSICS (the
\* branches on _M_X64 are marked "intrinsics available"), "win64" defines
\* _WIN64 alone, "x86" none of the three.
Builds == {"x64", "win64", "x86"}

\* shiftright128 without the intrinsic, with _WIN64:
\* (hi << (64 - dist)) | (lo >> dist), whose two parts share no bit when
\* 0 < dist < 64
shiftright128_Win64(lo, hi, dist) == BnAdd(U64(BnShl(hi, 64 - dist)), BnShr(lo, dist))

\* shiftright128 without the intrinsic and without _WIN64, 32 <= dist < 64
shiftright128_32(lo, hi, dist) ==
  BnAdd(U64(BnShl(hi, 64 - dist)), BnShr(U32(BnShr(lo, 32)), dist - 32))

shiftright128In(build, lo, hi, dist) ==
  IF build = "x64" THEN shiftright128(lo, hi, dist)
  ELSE IF build = "win64" THEN shiftright128_Win64(lo, hi, dist)
  ELSE shiftright128_32(lo, hi, dist)

\* what the assertions of shiftright128 require of dist in a build; dist is a
\* uint32_t, so that a negative difference is a number above 2^31
shiftright128Asserts(build, dist) ==
  /\ 0 <= dist /\ dist < 64
  /\ build = "win64" => dist > 0
  /\ build = "x86" => dist >= 32

\* a - b - c in 64 bits, c being 0 or 1
Sub64(a, b, c) == U64(BnSub(BnAdd(a, Two(65)), BnAdd(b, BnOf(c))))

\* the part that computes vm with mmShift taken as 1
mulShiftAllVm_OneShift(build, mul, j, mmShift, lo, mid, hi) ==
  LET lo3 == Sub64(lo, mul[1], 0)
      mid3 == Sub64(mid, mul[2], Bool2Int(BnLt(lo, lo3)))
      hi3 == Sub64(hi, <<>>, Bool2Int(BnLt(mid, mid3)))
  IN  shiftright128In(build, mid3, hi3, j - 64 - 1)

\* mulShiftAll without _M_X64, the part that computes vm: lo, mid, hi are the
\* words of 2m * mul
mulShiftAllVm(build, mul, j, mmShift, lo, mid, hi) ==
  IF mmShift = 1
  THEN LET lo3 == Sub64(lo, mul[1], 0)
           mid3 == Sub64(mid, mul[2], Bool2Int(BnLt(lo, lo3)))
           hi3 == Sub64(hi, <<>>, Bool2Int(BnLt(mid, mid3)))
       IN  shiftright128In(build, mid3, hi3, j - 64 - 1)
  ELSE LET lo3 == U64(BnAdd(lo, lo))
           mid3 == U64(BnAdd(BnAdd(mid, mid), BnOf(Bool2Int(BnLt(lo3, lo)))))
           hi3 == U64(BnAdd(BnAdd(hi, hi), BnOf(Bool2Int(BnLt(mid3, mid)))))
           lo4 == Sub64(lo3, mul[1], 0)
           mid4 == Sub64(mid3, mul[2], Bool2Int(BnLt(lo3, lo4)))
           hi4 == Sub64(hi3, <<>>, Bool2Int(BnLt(mid3, mid4)))
       IN  shiftright128In(build, mid4, hi4, j - 64)

\* the part that computes vp
mulShiftAllVp(build, mul, j, lo, mid, hi) ==
  LET lo2 == U64(BnAdd(lo, mul[1]))
      mid2 == U64(BnAdd(BnAdd(mid, mul[2]), BnOf(Bool2Int(BnLt(lo2, lo)))))
      hi2 == U64(BnAdd(hi, BnOf(Bool2Int(BnLt(mid2, mid)))))
  IN  shiftright128In(build, mid2, hi2, j - 64 - 1)

mulShiftAllWords(build, mul, j, mmShift, lo, mid, hi) ==
  [vp |-> mulShiftAllVp(build, mul, j, lo, mid, hi),
   vm |-> mulShiftAllVm(build, mul, j, mmShift, lo, mid, hi),
   vr |-> shiftright128In(build, mid, hi, j - 64 - 1)]

mulShiftAllProducts(build, mul, j, mmShift, b0, b1, mid) ==
  mulShiftAllWords(build, mul, j, mmShift, b0.lo, mid,
                   U64(BnAdd(b1.hi, BnOf(Bool2Int(BnLt(mid, b0.hi))))))

\* mulShiftAll without _M_X64: one product 2m * mul, to which mul is added
\* and from which it is subtracted
mulShiftAll_Shared(build, m, mul, j, mmShift) ==
  LET m1 == U64(BnShl(m, 1))
      b0 == umul128(m1, mul[1])
      b1 == umul128(m1, mul[2])
  IN  mulShiftAllProducts(build, mul, j, mmShift, b0, b1, U64(BnAdd(b0.hi, b1.lo)))

\* the distances of the calls of shiftright128 a call of mulShiftAll makes
mulShiftAllDists(build, j, mmShift) ==
  IF build = "x64" THEN {j - 64}
  ELSE {j - 64 - 1} \cup (IF mmShift = 1 THEN {} ELSE {j - 64})

decimalLength17(v) ==
  BnTop({n \in 1 .. 17 : n = 1 \/ BnLe(Pow10(n - 1), v)})

\* Step 2 of d2d: the interval of valid representations
d2dBounds(ieeeMantissa, ieeeExponent, e2, m2) ==
  [e2 |-> e2,
   m2 |-> m2,
   acceptBounds |-> BnIsEven(m2),
   mv |-> BnMulSmall(m2, 4),
   mmShift |-> Bool2Int(ieeeMantissa # <<>> \/ ieeeExponent <= 1)]

\* Step 1 of d2d: decode, unifying the normal and the subnormal case
d2dDecode(ieeeMantissa, ieeeExponent) ==
  d2dBounds(ieeeMantissa, ieeeExponent,
            IF ieeeExponent = 0
            THEN 1 - DOUBLE_BIAS - DOUBLE_MANTISSA_BITS - 2
            ELSE ieeeExponent - DOUBLE_BIAS - DOUBLE_MANTISSA_BITS - 2,
            IF ieeeExponent = 0 THEN ieeeMantissa
            ELSE BnAdd(Two(DOUBLE_MANTISSA_BITS), ieeeMantissa))

\* Step 3 of d2d for e2 >= 0, after mulShiftAll returned t
d2dScaleUp(d, q, t, mvMod5) ==
  [vr |-> t.vr,
   vp |-> IF q <= 21 /\ mvMod5 # 0 /\ ~d.acceptBounds
             /\ multipleOfPowerOf5(BnAdd(d.mv, <<2>>), q)
          THEN Dec64(t.vp) ELSE t.vp,
   vm |-> t.vm,
   e10 |-> q,
   vrIsTrailingZeros |-> q <= 21 /\ mvMod5 = 0 /\ multipleOfPowerOf5(d.mv, q),
   vmIsTrailingZeros |->
     q <= 21 /\ mvMod5 # 0 /\ d.acceptBounds
     /\ multipleOfPowerOf5(BnSub(d.mv, BnOf(1 + d.mmShift)), q),
   acceptBounds |-> d.acceptBounds]

\* Step 3 of d2d for e2 < 0, after mulShiftAll returned t
d2dScaleDown(d, q, t) ==
  [vr |-> t.vr,
   vp |-> IF q <= 1 /\ ~d.acceptBounds THEN Dec64(t.vp) ELSE t.vp,
   vm |-> t.vm,
   e10 |-> q + d.e2,
   vrIsTrailingZeros |->
     IF q <= 1 THEN TRUE
     ELSE IF q < 63 THEN multipleOfPowerOf2(d.mv, q - 1) ELSE FALSE,
   vmIsTrailingZeros |-> q <= 1 /\ d.acceptBounds /\ d.mmShift = 1,
   acceptBounds |-> d.acceptBounds]

\* d2dScaleUp with the tests on multiples of 5^q applied whatever q is
d2dScaleUp_AllQ(d, q, t, mvMod5) ==
  [vr |-> t.vr,
   vp |-> IF mvMod5 # 0 /\ ~d.acceptBounds /\ multipleOfPowerOf5(BnAdd(d.mv, <<2>>), q)
          THEN Dec64(t.vp) ELSE t.vp,
   vm |-> t.vm,
   e10 |-> q,
   vrIsTrailingZeros |-> mvMod5 = 0 /\ multipleOfPowerOf5(d.mv, q),
   vmIsTrailingZeros |->
     mvMod5 # 0 /\ d.acceptBounds
     /\ multipleOfPowerOf5(BnSub(d.mv, BnOf(1 + d.mmShift)), q),
   acceptBounds |-> d.acceptBounds]

\* the e2 >= 0 branch of step 3 with d2dScaleUp_AllQ in the place of d2dScaleUp
d2dScale_AllQ(d) ==
  LET q == log10Pow2(d.e2) - Bool2Int(d.e2 > 3)
      k == DOUBLE_POW5_INV_BITCOUNT + pow5bits(q) - 1
      i == (0 - d.e2) + q + k
  IN  d2dScaleUp_AllQ(d, q,
                      mulShiftAll(d.m2, DOUBLE_POW5_INV_SPLIT(q), i, d.mmShift),
                      Lo32MinusTimes(d.mv, 5, div5(d.mv)))

\* step 3 with 125 for both bit counts
d2dMulShiftAllArgs_Bitcount125(d) ==
  IF d.e2 >= 0
  THEN LET q == log10Pow2(d.e2) - Bool2Int(d.e2 > 3)
           k == 125 + pow5bits(q) - 1
           i == (0 - d.e2) + q + k
       IN  [m |-> d.m2, mul |-> DOUBLE_POW5_INV_SPLIT(q), j |-> i, mmShift |-> d.mmShift, q |-> q]
  ELSE LET q == log10Pow5(0 - d.e2) - Bool2Int((0 - d.e2) > 1)
           i == (0 - d.e2) - q
           k == pow5bits(i) - 125
           j == q - k
       IN  [m |-> d.m2, mul |-> DOUBLE_POW5_SPLIT(i), j |-> j, mmShift |-> d.mmShift, q |-> q]

\* step 3 with a q one smaller in the e2 < 0 branch
d2dMulShiftAllArgs_SmallerQ(d) ==
  IF d.e2 >= 0
  THEN LET q == log10Pow2(d.e2) - Bool2Int(d.e2 > 3)
           k == DOUBLE_POW5_INV_BITCOUNT + pow5bits(q) - 1
           i == (0 - d.e2) + q + k
       IN  [m |-> d.m2, mul |-> DOUBLE_POW5_INV_SPLIT(q), j |-> i, mmShift |-> d.mmShift, q |-> q]
  ELSE LET q == Max(0, log10Pow5(0 - d.e2) - 2)
           i == (0 - d.e2) - q
           k == pow5bits(i) - DOUBLE_POW5_BITCOUNT
           j == q - k
       IN  [m |-> d.m2, mul |-> DOUBLE_POW5_SPLIT(i), j |-> j, mmShift |-> d.mmShift, q |-> q]

\* Step 3 of d2d: q and the arguments of the call of mulShiftAll
d2dMulShiftAllArgs(d) ==
  IF d.e2 >= 0
  THEN LET q == log10Pow2(d.e2) - Bool2Int(d.e2 > 3)
           k == DOUBLE_POW5_INV_BITCOUNT + pow5bits(q) - 1
           i == (0 - d.e2) + q + k
       IN  [m |-> d.m2, mul |-> DOUBLE_POW5_INV_SPLIT(q), j |-> i, mmShift |-> d.mmShift, q |-> q]
  ELSE LET q == log10Pow5(0 - d.e2) - Bool2Int((0 - d.e2) > 1)
           i == (0 - d.e2) - q
           k == pow5bits(i) - DOUBLE_POW5_BITCOUNT
           j == q - k
       IN  [m |-> d.m2, mul |-> DOUBLE_POW5_SPLIT(i), j |-> j, mmShift |-> d.mmShift, q |-> q]

\* Step 3 of d2d: the arguments it passes to log10Pow2, log10Pow5 and pow5bits
d2dLogArgs(e2) ==
  IF e2 >= 0
  THEN [log10Pow2 |-> {e2}, log10Pow5 |-> {},
        pow5bits |-> {log10Pow2(e2) - Bool2Int(e2 > 3)}]
  ELSE [log10Pow2 |-> {}, log10Pow5 |-> {0 - e2},
        pow5bits |-> {(0 - e2) - (log10Pow5(0 - e2) - Bool2Int((0 - e2) > 1))}]

\* Step 3 of d2d after the call: t is what mulShiftAll returned for the arguments a
d2dScaled(d, a, t) ==
  IF d.e2 >= 0
  THEN d2dScaleUp(d, a.q, t, Lo32MinusTimes(d.mv, 5, div5(d.mv)))
  ELSE d2dScaleDown(d, a.q, t)

d2dScaleCall(d, a) == d2dScaled(d, a, mulShiftAll(a.m, a.mul, a.j, a.mmShift))

\* Step 3 of d2d: the scaled interval and the trailing-zero flags.
d2dScale(d) == d2dScaleCall(d, d2dMulShiftAllArgs(d))

\* Step 4, general case: one round of the loops, with the three quotients
d2dGeneralStep(s, vpDiv10, vmDiv10, vrDiv10, vmIsTrailingZeros) ==
  [vr |-> vrDiv10, vp |-> vpDiv10, vm |-> vmDiv10,
   vmIsTrailingZeros |-> vmIsTrailingZeros,
   vrIsTrailingZeros |-> s.vrIsTrailingZeros /\ s.lastRemovedDigit = 0,
   lastRemovedDigit |-> Lo32MinusTimes(s.vr, 10, vrDiv10) % 256,
   removed |-> s.removed + 1]

\* Step 4, general case: the loop that removes digits while vp/10 > vm/10.
RECURSIVE d2dGeneralLoop(_)
d2dGeneralNext(s, vpDiv10, vmDiv10) ==
  IF BnLe(vpDiv10, vmDiv10) THEN s
  ELSE d2dGeneralLoop(d2dGeneralStep(s, vpDiv10, vmDiv10, div10(s.vr),
         s.vmIsTrailingZeros /\ Lo32MinusTimes(s.vm, 10, vmDiv10) = 0))
d2dGeneralLoop(s) == d2dGeneralNext(s, div10(s.vp), div10(s.vm))

\* Step 4, general case: the loop that removes the trailing zeros of vm.
RECURSIVE d2dZerosLoop(_)
d2dZerosNext(s, vmDiv10) ==
  IF Lo32MinusTimes(s.vm, 10, vmDiv10) # 0 THEN s
  ELSE d2dZerosLoop(d2dGeneralStep(s, div10(s.vp), vmDiv10, div10(s.vr),
                                   s.vmIsTrailingZeros))
d2dZerosLoop(s) == d2dZerosNext(s, div10(s.vm))

\* the general case returning vr as it is, never vr + 1
d2dGeneralOutput_Truncate(s, acceptBounds) == [output |-> s.vr, removed |-> s.removed]

\* Step 4, general case: the output, rounded, and the digits removed
d2dGeneralOutput(s, acceptBounds) ==
  [output |->
     IF \/ s.vr = s.vm /\ (~acceptBounds \/ ~s.vmIsTrailingZeros)
        \/ (IF s.vrIsTrailingZeros /\ s.lastRemovedDigit = 5 /\ BnIsEven(s.vr)
            THEN 4 ELSE s.lastRemovedDigit) >= 5
     THEN Inc64(s.vr) ELSE s.vr,
   removed |-> s.removed]

d2dGeneralZeros(s) == IF s.vmIsTrailingZeros THEN d2dZerosLoop(s) ELSE s

\* Step 4, general case: the locals on entry
d2dGeneralStart(c) ==
  [vr |-> c.vr, vp |-> c.vp, vm |-> c.vm,
   vmIsTrailingZeros |-> c.vmIsTrailingZeros,
   vrIsTrailingZeros |-> c.vrIsTrailingZeros,
   lastRemovedDigit |-> 0, removed |-> 0]

d2dGeneral(c) ==
  d2dGeneralOutput(d2dGeneralZeros(d2dGeneralLoop(d2dGeneralStart(c))), c.acceptBounds)

\* the common-case loop leaving after no iteration
d2dFastLoop_Skipped(s) == s

\* Step 4, common case: the loop that removes one digit at a time.
RECURSIVE d2dFastLoop(_)
d2dFastNext(s, vpDiv10, vmDiv10, vrDiv10) ==
  IF BnLe(vpDiv10, vmDiv10) THEN s
  ELSE d2dFastLoop([vr |-> vrDiv10, vp |-> vpDiv10, vm |-> vmDiv10,
                    roundUp |-> Lo32MinusTimes(s.vr, 10, vrDiv10) >= 5,
                    removed |-> s.removed + 1])
d2dFastLoop(s) == d2dFastNext(s, div10(s.vp), div10(s.vm), div10(s.vr))

\* Step 4, common case: the locals on entry
d2dFastStart(c) == [vr |-> c.vr, vp |-> c.vp, vm |-> c.vm, roundUp |-> FALSE, removed |-> 0]

\* the first round deciding on the last digit alone
d2dFastFirst_LastDigit(c, vpDiv100, vmDiv100, vrDiv100) ==
  IF BnLt(vmDiv100, vpDiv100)
  THEN [vr |-> vrDiv100, vp |-> vpDiv100, vm |-> vmDiv100,
        roundUp |-> Lo32MinusTimes(c.vr, 100, vrDiv100) % 10 >= 5, removed |-> 2]
  ELSE d2dFastStart(c)

\* Step 4, common case: the first round removes two digits at once
d2dFastFirst(c, vpDiv100, vmDiv100, vrDiv100) ==
  IF BnLt(vmDiv100, vpDiv100)
  THEN [vr |-> vrDiv100, vp |-> vpDiv100, vm |-> vmDiv100,
        roundUp |-> Lo32MinusTimes(c.vr, 100, vrDiv100) >= 50, removed |-> 2]
  ELSE [vr |-> c.vr, vp |-> c.vp, vm |-> c.vm, roundUp |-> FALSE, removed |-> 0]

\* the common case returning vr + 1 always
d2dFastOutput_Up(s) == [output |-> Inc64(s.vr), removed |-> s.removed]

d2dFastOutput(s) ==
  [output |-> IF s.vr = s.vm \/ s.roundUp THEN Inc64(s.vr) ELSE s.vr,
   removed |-> s.removed]

d2dFast(c) ==
  d2dFastOutput(d2dFastLoop(d2dFastFirst(c, div100(c.vp), div100(c.vm), div100(c.vr))))

\* Step 4 of d2d: the shortest representation in the interval
d2dShortest(c) ==
  IF c.vmIsTrailingZeros \/ c.vrIsTrailingZeros THEN d2dGeneral(c) ELSE d2dFast(c)

d2dResult(c, r) == [mantissa |-> r.output, exponent |-> c.e10 + r.removed]

d2dSteps(c) == d2dResult(c, d2dShortest(c))

\* floating_decimal_64 d2d(ieeeMantissa, ieeeExponent)
d2d(ieeeMantissa, ieeeExponent) == d2dSteps(d2dScale(d2dDecode(ieeeMantissa, ieeeExponent)))

\* d2d_small_int without the test that the fraction is zero
d2d_small_int_AnyFraction(ieeeMantissa, ieeeExponent) ==
  IF ieeeExponent > 1075 \/ ieeeExponent < 1023 THEN <<FALSE>>
  ELSE <<TRUE, [mantissa |-> BnShr(BnAdd(Two(52), ieeeMantissa), 1075 - ieeeExponent),
                exponent |-> 0]>>

\* bool d2d_small_int(ieeeMantissa, ieeeExponent, v): <<true, v>> or <<false>>
d2d_small_int(ieeeMantissa, ieeeExponent) ==
  LET e2 == ieeeExponent - DOUBLE_BIAS - DOUBLE_MANTISSA_BITS
  IN  IF e2 > 0 THEN <<FALSE>>
      ELSE IF e2 < -52 THEN <<FALSE>>
      ELSE IF BnModPow2(BnAdd(Two(DOUBLE_MANTISSA_BITS), ieeeMantissa), 0 - e2) # <<>>
      THEN <<FALSE>>
      ELSE <<TRUE, [mantissa |-> BnShr(BnAdd(Two(DOUBLE_MANTISSA_BITS), ieeeMantissa), 0 - e2),
                    exponent |-> 0]>>

\* the loop below dropping the zeros without counting them in the exponent
RECURSIVE StripZeros_KeepExponent(_)
StripZeros_KeepExponent(v) ==
  IF Lo32MinusTimes(v.mantissa, 10, div10(v.mantissa)) # 0 THEN v
  ELSE StripZeros_KeepExponent([mantissa |-> div10(v.mantissa), exponent |-> v.exponent])

\* d2s_buffered_n, the loop that moves the trailing zeros of a small integer
\* into the exponent
RECURSIVE StripZeros(_)
StripZeros(v) ==
  IF Lo32MinusTimes(v.mantissa, 10, div10(v.mantissa)) # 0 THEN v
  ELSE StripZeros([mantissa |-> div10(v.mantissa), exponent |-> v.exponent + 1])

d2sSmallIntOr(ieeeMantissa, ieeeExponent, si) ==
  IF si[1] THEN StripZeros(si[2]) ELSE d2d(ieeeMantissa, ieeeExponent)

\* d2s_buffered_n, from the call of d2d_small_int to the call of to_chars: the
\* floating decimal handed to to_chars
d2sDecimal(ieeeMantissa, ieeeExponent) ==
  d2sSmallIntOr(ieeeMantissa, ieeeExponent, d2d_small_int(ieeeMantissa, ieeeExponent))


(***************************************************************************)
(* Characters and the result area.  A result area is a sequence of bytes,  *)
(* byte i of the program at place i + 1; "" is a byte never written.  A    *)
(* store past the end makes the sequence longer, so that a write outside   *)
(* the caller's range shows as a sequence longer than the range.           *)
(***************************************************************************)
DecimalDigits == <<"0", "1", "2", "3", "4", "5", "6", "7", "8", "9">>

\* static_cast<char>('0' + d)
Char(d) == DecimalDigits[d + 1]

\* the character code of a digit character
CharCode(c) == 48 + (CHOOSE d \in 0 .. 9 : DecimalDigits[d + 1] = c)

\* DIGIT_TABLE is not among the sources: the 200 characters "00" "01" .. "99"
DIGIT_TABLE(i) == Char(IF i % 2 = 0 THEN (i \div 2) \div 10 ELSE (i \div 2) % 10)

\* result[i] = c
Store(b, i, c) ==
  IF i < Len(b) THEN [b EXCEPT ![i + 1] = c]
  ELSE b \o [k \in 1 .. i - Len(b) |-> ""] \o <<c>>

\* memcpy(result + i, DIGIT_TABLE + c, 2)
memcpy2(b, i, c) == Store(Store(b, i, DIGIT_TABLE(c)), i + 1, DIGIT_TABLE(c + 1))

\* memset(result + i, c, n)
memset(b, i, c, n) ==
  IF n = 0 THEN b
  ELSE [k \in 1 .. Max(Len(b), i + n) |->
          IF k > i /\ k <= i + n THEN c ELSE IF k <= Len(b) THEN b[k] ELSE ""]

\* memmove(result + to, result + from, n)
memmove(b, to, from, n) ==
  [k \in 1 .. Len(b) |-> IF k > to /\ k <= to + n THEN b[k - to + from] ELSE b[k]]


(***************************************************************************)
(* d2fixed.c: the multiplication by a 192-bit table entry, the digit       *)
(* writers, d2fixed_buffered_n and d2exp_buffered_n.                       *)
(***************************************************************************)
POW10_ADDITIONAL_BITS == 120

umul256Hi(b01, b11, temp1Hi, temp2Lo) ==
  U64(BnAdd(b11.lo,
            BnAdd(temp1Hi,
                  U64(BnAdd(b01.hi, BnOf(Bool2Int(BnLt(temp2Lo, b01.lo))))))))

umul256Temp1(b01, b10, b11, temp1Lo) ==
  umul256Hi(b01, b11,
            U64(BnAdd(b10.hi, BnOf(Bool2Int(BnLt(temp1Lo, b10.lo))))),
            U64(BnAdd(b01.lo, temp1Lo)))

umul256Products(b00, b01, b10, b11) ==
  Then(<<b00, b01, b10, b11>>, umul256Temp1(b01, b10, b11, U64(BnAdd(b10.lo, b00.hi))))

\* the low 64 bits of the high 128 bits of the 256-bit product of a and b
umul256_hi128_lo64(aHi, aLo, bHi, bLo) ==
  umul256Products(umul128(aLo, bLo), umul128(aLo, bHi), umul128(aHi, bLo), umul128(aHi, bHi))

\* static_cast<uint32_t>(vLo) - 1000000000 * shifted, in 32 bits
uint128_mod1e9Shifted(vLo, shifted) ==
  Then(shifted, BnSmall(U32(BnSub(BnAdd(U32(vLo), Two(62)), BnMulPow10(shifted, 9)))))

\* 0x89705F4136B4A597 and 0x31680A88F8953031
MOD1E9_MULTIPLIER_HI == Hex64(35184, 24385, 14004, 42391)
MOD1E9_MULTIPLIER_LO == Hex64(12648, 2696, 63637, 12337)

uint128_mod1e9(vHi, vLo) ==
  uint128_mod1e9Shifted(vLo,
    U32(BnShr(umul256_hi128_lo64(vHi, vLo, MOD1E9_MULTIPLIER_HI, MOD1E9_MULTIPLIER_LO), 29)))

mulShift_mod1e9High(s1low, s1high, dist) ==
  Then(<<s1low, s1high>>,
       uint128_mod1e9(BnShr(s1high, dist), shiftright128(s1low, s1high, dist)))

mulShift_mod1e9S1(p2, s1low, j) ==
  mulShift_mod1e9High(s1low, U64(BnAdd(p2.hi, BnOf(Bool2Int(BnLt(s1low, p2.lo))))), j - 128)

mulShift_mod1e9S0(p1, p2, s0high, j) ==
  mulShift_mod1e9S1(p2,
    U64(BnAdd(p2.lo, BnAdd(p1.hi, BnOf(Bool2Int(BnLt(s0high, p1.lo)))))), j)

mulShift_mod1e9Products(p0, p1, p2, j) ==
  Then(<<p0, p1, p2>>, mulShift_mod1e9S0(p1, p2, U64(BnAdd(p1.lo, p0.hi)), j))

\* uint32_t mulShift_mod1e9(m, mul, j), mul being three 64-bit words
mulShift_mod1e9(m, mul, j) ==
  Then(mul, mulShift_mod1e9Products(umul128(m, mul[1]), umul128(m, mul[2]), umul128(m, mul[3]), j))

\* s1low and s1high of mulShift_mod1e9: bits 128 to 255 of the sum of the
\* three products p0, p1, p2 of m with the words of mul
mulShift_mod1e9Sums(p0, p1, p2) ==
  LET s0high == U64(BnAdd(p1.lo, p0.hi))
      s1low == U64(BnAdd(p2.lo, BnAdd(p1.hi, BnOf(Bool2Int(BnLt(s0high, p1.lo))))))
  IN  [s1low |-> s1low, s1high |-> U64(BnAdd(p2.hi, BnOf(Bool2Int(BnLt(s1low, p2.lo)))))]

\* as if the call of shiftright128 were made in every build
mulShift_mod1e9Dists_EveryBuild(build, j) == {j - 128}

\* the distances of the calls of shiftright128 a call of mulShift_mod1e9 makes
mulShift_mod1e9Dists(build, j) == IF build = "x64" THEN {j - 128} ELSE {}

\* that branch without its second half: every j takes the path of j < 160
mulShift_mod1e9R0_NoSplit(s, r0, j) ==
  mod1e9_umulh(BnShr(BnAdd(BnShl(mod1e9_umulh(BnAdd(BnShl(r0, 32), BnShr(s.s1low, 32))), 32),
                           U32(s.s1low)),
                     j - 128))

\* the branch of mulShift_mod1e9 for the platforms without _M_X64, from r0 on
mulShift_mod1e9R0(s, r0, j) ==
  IF j < 160
  THEN mod1e9_umulh(BnShr(BnAdd(BnShl(mod1e9_umulh(BnAdd(BnShl(r0, 32), BnShr(s.s1low, 32))), 32),
                                U32(s.s1low)),
                          j - 128))
  ELSE mod1e9_umulh(BnShr(BnAdd(BnShl(r0, 32), BnShr(s.s1low, 32)), j - 160))

mulShift_mod1e9Chain(s, j) == Then(s, mulShift_mod1e9R0(s, mod1e9_umulh(s.s1high), j))

\* mulShift_mod1e9 on the platforms without _M_X64, as a 32-bit number
mulShift_mod1e9_Chained(m, mul, j) ==
  mulShift_mod1e9Chain(
    mulShift_mod1e9Sums(umul128(m, mul[1]), umul128(m, mul[2]), umul128(m, mul[3])), j)

decimalLength9(x) ==
  IF x >= 100000000 THEN 9
  ELSE IF x >= 10000000 THEN 8
  ELSE IF x >= 1000000 THEN 7
  ELSE IF x >= 100000 THEN 6
  ELSE IF x >= 10000 THEN 5
  ELSE IF x >= 1000 THEN 4
  ELSE IF x >= 100 THEN 3
  ELSE IF x >= 10 THEN 2
  ELSE 1

\* append_n_digits(olength, digits, result + at): the last two steps
append_n_tail(olength, digits, i, b, at) ==
  IF digits >= 10 THEN memcpy2(b, at + olength - i - 2, digits * 2)
  ELSE Store(b, at, Char(digits))

append_n_hundreds(olength, digits, i, b, at) ==
  IF digits >= 100
  THEN append_n_tail(olength, digits \div 100, i + 2,
                     memcpy2(b, at + olength - i - 2, (digits % 100) * 2), at)
  ELSE append_n_tail(olength, digits, i, b, at)

RECURSIVE append_n_loop(_, _, _, _, _)
append_n_loop(olength, digits, i, b, at) ==
  IF digits >= 10000
  THEN append_n_loop(olength, digits \div 10000, i + 4,
         memcpy2(memcpy2(b, at + olength - i - 2, ((digits % 10000) % 100) * 2),
                 at + olength - i - 4, ((digits % 10000) \div 100) * 2),
         at)
  ELSE append_n_hundreds(olength, digits, i, b, at)

\* the olength digits of digits at result + at
append_n_digits(olength, digits, b, at) == append_n_loop(olength, digits, 0, b, at)

\* append_d_digits(olength, digits, result + at): the last step
append_d_tail(digits, b, at) ==
  IF digits >= 10
  THEN Store(Store(Store(b, at + 2, DIGIT_TABLE(digits * 2 + 1)), at + 1, "."),
             at, DIGIT_TABLE(digits * 2))
  ELSE Store(Store(b, at + 1, "."), at, Char(digits))

append_d_hundreds(olength, digits, i, b, at) ==
  IF digits >= 100
  THEN append_d_tail(digits \div 100,
                     memcpy2(b, at + olength + 1 - i - 2, (digits % 100) * 2), at)
  ELSE append_d_tail(digits, b, at)

RECURSIVE append_d_loop(_, _, _, _, _)
append_d_loop(olength, digits, i, b, at) ==
  IF digits >= 10000
  THEN append_d_loop(olength, digits \div 10000, i + 4,
         memcpy2(memcpy2(b, at + olength + 1 - i - 2, ((digits % 10000) % 100) * 2),
                 at + olength + 1 - i - 4, ((digits % 10000) \div 100) * 2),
         at)
  ELSE append_d_hundreds(olength, digits, i, b, at)

\* the first digit, a '.', and the other olength - 1 digits at result + at
append_d_digits(olength, digits, b, at) == append_d_loop(olength, digits, 0, b, at)

\* The low count digits of digits at result + at.  count is unsigned and at
\* least 1 at every call.
RECURSIVE append_c_loop(_, _, _, _, _)
append_c_loop(count, digits, i, b, at) ==
  IF i < count - 1
  THEN append_c_loop(count, digits \div 100, i + 2,
                     memcpy2(b, at + count - i - 2, (digits % 100) * 2), at)
  ELSE IF i < count THEN Store(b, at + count - i - 1, Char(digits % 10))
  ELSE b

append_c_digits(count, digits, b, at) == append_c_loop(count, digits, 0, b, at)

RECURSIVE append_nine_loop(_, _, _, _)
append_nine_loop(digits, i, b, at) ==
  IF i < 5
  THEN append_nine_loop(digits \div 10000, i + 4,
         memcpy2(memcpy2(b, at + 7 - i, ((digits % 10000) % 100) * 2),
                 at + 5 - i, ((digits % 10000) \div 100) * 2),
         at)
  ELSE Store(b, at, Char(digits))

\* nine digits, with leading zeros, at result + at
append_nine_digits(digits, b, at) ==
  IF digits = 0 THEN memset(b, at, "0", 9) ELSE append_nine_loop(digits, 0, b, at)

indexForExponent(e) == (e + 15) \div 16
pow10BitsForIndex(idx) == 16 * idx + POW10_ADDITIONAL_BITS
lengthForIndex(idx) == (log10Pow2(16 * idx) + 1 + 16 + 8) \div 9

(***************************************************************************)
(* The tables of d2fixed and d2exp are not among the sources.  They are    *)
(* what the algorithm fixes them to be: POW10_SPLIT holds, for each idx,   *)
(* lengthForIndex(idx) entries floor(2^pow10BitsForIndex(idx) / 10^(9i))   *)
(* + 1; POW10_SPLIT_2 holds, for each idx, the entries                     *)
(* floor(10^(9(i+1)) * 2^ADDITIONAL_BITS_2 / 2^(16 idx)) of the blocks i   *)
(* from MIN_BLOCK_2(idx), the first block that can be nonzero, to the last *)
(* that can be; both reduced modulo 10^9 * 2^136 to three 64-bit words.    *)
(* The OFFSET tables hold where the entries of an idx start.  An entry     *)
(* table[i] of the program is written table(i).                            *)
(***************************************************************************)
ADDITIONAL_BITS_2 == 120
TABLE_SIZE == 64
TABLE_SIZE_2 == 69

\* F[lo] + ... + F[hi]
RECURSIVE SumRange(_, _, _)
SumRange(F, lo, hi) ==
  IF hi < lo THEN 0
  ELSE IF lo = hi THEN F[lo]
  ELSE SumRange(F, lo, (lo + hi) \div 2) + SumRange(F, (lo + hi) \div 2 + 1, hi)

\* the entries of a table written out, entry i of the program at place i + 1
Table(F) == SubSeq(F, 1, Len(F))

POW10_LENGTHS == Table([k \in 1 .. TABLE_SIZE |-> lengthForIndex(k - 1)])
POW10_OFFSETS == Table([k \in 1 .. TABLE_SIZE |-> SumRange(POW10_LENGTHS, 1, k - 1)])
POW10_OFFSET(idx) == POW10_OFFSETS[idx + 1]

MIN_BLOCKS_2 ==
  Table([k \in 1 .. TABLE_SIZE_2 |->
           IF 16 * (k - 1) - (DOUBLE_MANTISSA_BITS + 1) <= 0 THEN 0
           ELSE log10Pow2(16 * (k - 1) - (DOUBLE_MANTISSA_BITS + 1)) \div 9])
MIN_BLOCK_2(idx) == MIN_BLOCKS_2[idx + 1]

POW10_LENGTHS_2 ==
  Table([k \in 1 .. TABLE_SIZE_2 |-> (16 * (k - 1) + 16 + 8) \div 9 - MIN_BLOCKS_2[k]])
POW10_OFFSETS_2 == Table([k \in 1 .. TABLE_SIZE_2 + 1 |-> SumRange(POW10_LENGTHS_2, 1, k - 1)])
POW10_OFFSET_2(idx) == POW10_OFFSETS_2[idx + 1]

\* the idx whose entries include entry p: the last one that starts at or before p
IndexOfEntry(offsets, size, p) == BnTop({k \in 0 .. size - 1 : offsets[k + 1] <= p})

\* x mod 10^9
BnMod1e9(x) == BnSub(x, BnMulPow10(BnDivPow10(x, 9), 9))

\* x mod (10^9 * 2^136), as three 64-bit words, low word first
SplitWords3Of(x) == <<U64(x), U64(BnShr(x, 64)), BnShr(x, 128)>>
SplitWords3(x) == SplitWords3Of(BnAdd(BnModPow2(x, 136), BnShl(BnMod1e9(BnShr(x, 136)), 136)))

POW10_SPLIT_At(idx, i) ==
  SplitWords3(BnAdd(BnDivPow10(Two(pow10BitsForIndex(idx)), 9 * i), <<1>>))

POW10_SPLIT_In(idx, p) == POW10_SPLIT_At(idx, p - POW10_OFFSET(idx))

POW10_SPLIT(p) == POW10_SPLIT_In(IndexOfEntry(POW10_OFFSETS, TABLE_SIZE, p), p)

POW10_SPLIT_2_At(idx, i) ==
  SplitWords3(BnShr(BnShl(Pow10(9 * (i + 1)), ADDITIONAL_BITS_2), 16 * idx))

POW10_SPLIT_2_In(idx, p) == POW10_SPLIT_2_At(idx, p - POW10_OFFSET_2(idx) + MIN_BLOCK_2(idx))

POW10_SPLIT_2(p) == POW10_SPLIT_2_In(IndexOfEntry(POW10_OFFSETS_2, TABLE_SIZE_2, p), p)

\* Step 1 of d2fixed and d2exp: decode
FixedE2(ieeeExponent) ==
  IF ieeeExponent = 0 THEN 1 - DOUBLE_BIAS - DOUBLE_MANTISSA_BITS
  ELSE ieeeExponent - DOUBLE_BIAS - DOUBLE_MANTISSA_BITS

FixedM2(ieeeMantissa, ieeeExponent) ==
  IF ieeeExponent = 0 THEN ieeeMantissa
  ELSE BnAdd(Two(DOUBLE_MANTISSA_BITS), ieeeMantissa)

\* the shift of the blocks of the integer part without the 8 of m2 << 8
IntegerShift_NoEight(e2, idx) == pow10BitsForIndex(idx) - e2

\* the shift j + 8 passed for the blocks of the integer part, and for those of
\* the fraction
IntegerShift(e2, idx) == pow10BitsForIndex(idx) - e2 + 8
FractionShift(e2, idx) == ADDITIONAL_BITS_2 + ((0 - e2) - 16 * idx) + 8

\* the block of nine digits number i of the integer part
IntegerBlock(m2, e2, idx, i) ==
  mulShift_mod1e9(U64(BnShl(m2, 8)), POW10_SPLIT(POW10_OFFSET(idx) + i), IntegerShift(e2, idx))

\* the block of nine digits at entry p of the fraction
FractionBlock(m2, e2, idx, p) ==
  mulShift_mod1e9(U64(BnShl(m2, 8)), POW10_SPLIT_2(p), FractionShift(e2, idx))

\* the arguments d2fixed and d2exp pass to log10Pow2, in lengthForIndex
lengthForIndexLogArgs(e2) ==
  IF e2 >= -52 THEN {16 * (IF e2 < 0 THEN 0 ELSE indexForExponent(e2))} ELSE {}

\* the shifts of the calls of mulShift_mod1e9 in d2fixed: the loop over the
\* integer part runs when e2 >= -52, the loop over the fraction when e2 < 0
d2fixedShifts(e2) ==
  (IF e2 >= -52 THEN {IntegerShift(e2, IF e2 < 0 THEN 0 ELSE indexForExponent(e2))} ELSE {})
  \cup (IF e2 < 0 THEN {FractionShift(e2, (0 - e2) \div 16)} ELSE {})

\* the same in d2exp
d2expShifts(e2) ==
  (IF e2 >= -52 THEN {IntegerShift(e2, IF e2 < 0 THEN 0 ELSE indexForExponent(e2))} ELSE {})
  \cup (IF e2 < 0 THEN {FractionShift(e2, (0 - e2) \div 16)} ELSE {})

\* the loop that cuts digits off: <<digits, lastDigit>> after k rounds
RECURSIVE DropDigits(_, _, _)
DropDigits(digits, lastDigit, k) ==
  IF k <= 0 THEN <<digits, lastDigit>>
  ELSE DropDigits(digits \div 10, digits % 10, k - 1)

\* the zero case of d2fixed
d2fixedZero(b, precision) ==
  [index |-> IF precision > 0 THEN 2 + precision ELSE 1,
   b |-> IF precision > 0
         THEN memset(Store(Store(b, 0, "0"), 1, "."), 2, "0", precision)
         ELSE Store(b, 0, "0")]

\* d2fixed, one round of the loop over the blocks of the integer part
d2fixedIntBlock(s, digits) ==
  IF digits = digits /\ s.nonzero
  THEN [index |-> s.index + 9, nonzero |-> TRUE,
        b |-> append_nine_digits(digits, s.b, s.index)]
  ELSE IF digits # 0
  THEN [index |-> s.index + decimalLength9(digits), nonzero |-> TRUE,
        b |-> append_n_digits(decimalLength9(digits), digits, s.b, s.index)]
  ELSE s

\* d2fixed, the loop over the blocks of the integer part: the rounds i = hi
\* down to i = lo, the upper half of them first
RECURSIVE d2fixedIntLoop(_, _, _, _, _, _)
d2fixedIntRest(m2, e2, idx, hi, lo, s) == Then(s, d2fixedIntLoop(m2, e2, idx, hi, lo, s))
d2fixedIntLoop(m2, e2, idx, hi, lo, s) ==
  IF hi < lo THEN s
  ELSE IF hi = lo THEN d2fixedIntBlock(s, IntegerBlock(m2, e2, idx, hi))
  ELSE d2fixedIntRest(m2, e2, idx, (hi + lo + 1) \div 2 - 1, lo,
                      d2fixedIntLoop(m2, e2, idx, hi, (hi + lo + 1) \div 2, s))

\* d2fixed, the integer part: the blocks, or a '0', and the '.'
d2fixedInteger(b, m2, e2) ==
  IF e2 >= -52
  THEN d2fixedIntLoop(m2, e2, IF e2 < 0 THEN 0 ELSE indexForExponent(e2),
                      lengthForIndex(IF e2 < 0 THEN 0 ELSE indexForExponent(e2)) - 1, 0,
                      [index |-> 0, nonzero |-> FALSE, b |-> b])
  ELSE [index |-> 0, nonzero |-> FALSE, b |-> b]

d2fixedNoDigit(s) ==
  IF ~s.nonzero THEN [index |-> s.index + 1, b |-> Store(s.b, s.index, "0")]
  ELSE [index |-> s.index, b |-> s.b]

d2fixedPoint(s, precision) ==
  IF precision > 0 THEN [index |-> s.index + 1, b |-> Store(s.b, s.index, ".")] ELSE s

\* d2fixed, the rounding of a tie: half up
d2fixedRoundUp_HalfUp(m2, e2, precision, lastDigit) == Bool2Int(lastDigit >= 5)

\* d2fixed: 0 = don't round up; 1 = round up unconditionally; 2 = round up if odd
d2fixedRoundUp(m2, e2, precision, lastDigit) ==
  IF lastDigit # 5 THEN Bool2Int(lastDigit > 5)
  ELSE IF \/ (0 - e2) - precision - 1 <= 0
          \/ /\ (0 - e2) - precision - 1 < 60
             /\ multipleOfPowerOf2(m2, (0 - e2) - precision - 1)
  THEN 2 ELSE 1

\* d2fixed, the last block of the fraction: dl is <<digits, lastDigit>>
d2fixedLastDigits(m2, e2, precision, s, maximum, dl) ==
  [index |-> s.index + maximum,
   b |-> IF maximum > 0 THEN append_c_digits(maximum, dl[1], s.b, s.index) ELSE s.b,
   break |-> TRUE,
   roundUp |-> d2fixedRoundUp(m2, e2, precision, dl[2])]

d2fixedFracDigits(m2, e2, precision, blocks, i, s, digits) ==
  IF digits = digits /\ i < blocks - 1
  THEN [index |-> s.index + 9, b |-> append_nine_digits(digits, s.b, s.index),
        break |-> FALSE, roundUp |-> 0]
  ELSE d2fixedLastDigits(m2, e2, precision, s, precision - 9 * i,
                         DropDigits(digits, 0, 9 - (precision - 9 * i)))

\* d2fixed, round i of the loop over the blocks of the fraction
d2fixedFracBlock(m2, e2, precision, idx, blocks, i, s) ==
  IF s.break THEN s
  ELSE IF POW10_OFFSET_2(idx) + i - MIN_BLOCK_2(idx) >= POW10_OFFSET_2(idx + 1)
  THEN [index |-> s.index + (precision - 9 * i),
        b |-> memset(s.b, s.index, "0", precision - 9 * i),
        break |-> TRUE, roundUp |-> 0]
  ELSE d2fixedFracDigits(m2, e2, precision, blocks, i, s,
         FractionBlock(m2, e2, idx, POW10_OFFSET_2(idx) + i - MIN_BLOCK_2(idx)))

\* d2fixed, the loop over the blocks of the fraction: the rounds i = lo to
\* i = hi, the lower half of them first; after a break the rounds do nothing
RECURSIVE d2fixedFracLoop(_, _, _, _, _, _, _, _)
d2fixedFracRest(m2, e2, precision, idx, blocks, lo, hi, s) ==
  Then(s, d2fixedFracLoop(m2, e2, precision, idx, blocks, lo, hi, s))
d2fixedFracLoop(m2, e2, precision, idx, blocks, lo, hi, s) ==
  IF hi < lo THEN s
  ELSE IF hi = lo THEN d2fixedFracBlock(m2, e2, precision, idx, blocks, lo, s)
  ELSE d2fixedFracRest(m2, e2, precision, idx, blocks, (lo + hi) \div 2 + 1, hi,
                       d2fixedFracLoop(m2, e2, precision, idx, blocks, lo, (lo + hi) \div 2, s))

\* d2fixed, the blocks of the fraction that are zero for every double: the
\* state before the loop and the first i of the loop
d2fixedFracFirst(precision, blocks, minBlock) ==
  IF blocks <= minBlock THEN blocks ELSE IF 0 < minBlock THEN minBlock ELSE 0

d2fixedFracStart(s, precision, blocks, minBlock) ==
  IF blocks <= minBlock
  THEN [index |-> s.index + precision, b |-> memset(s.b, s.index, "0", precision),
        break |-> FALSE, roundUp |-> 0]
  ELSE IF 0 < minBlock
  THEN [index |-> s.index + 9 * minBlock, b |-> memset(s.b, s.index, "0", 9 * minBlock),
        break |-> FALSE, roundUp |-> 0]
  ELSE [index |-> s.index, b |-> s.b, break |-> FALSE, roundUp |-> 0]

\* d2fixed, rounding up: the walk from the last digit written to the first
RECURSIVE d2fixedRoundWalk(_, _, _, _, _)
d2fixedRoundWalk(b, index, roundIndex, dotIndex, roundUp) ==
  IF roundIndex = -1
  THEN [index |-> index + 1,
        b |-> Store(IF dotIndex > 0
                    THEN Store(Store(Store(b, 0, "1"), dotIndex, "0"), dotIndex + 1, ".")
                    ELSE Store(b, 0, "1"),
                    index, "0")]
  ELSE IF b[roundIndex + 1] = "."
  THEN d2fixedRoundWalk(b, index, roundIndex - 1, roundIndex, roundUp)
  ELSE IF b[roundIndex + 1] = "9"
  THEN d2fixedRoundWalk(Store(b, roundIndex, "0"), index, roundIndex - 1, dotIndex, 1)
  ELSE IF roundUp = 2 /\ CharCode(b[roundIndex + 1]) % 2 = 0
  THEN [index |-> index, b |-> b]
  ELSE [index |-> index,
        b |-> Store(b, roundIndex, Char(CharCode(b[roundIndex + 1]) + 1 - 48))]

\* d2fixed leaving the digits as they were written
d2fixedRound_Keep(s) == [index |-> s.index, b |-> s.b]

d2fixedRound(s) ==
  IF s.roundUp # 0 THEN d2fixedRoundWalk(s.b, s.index, s.index - 1, 0, s.roundUp)
  ELSE [index |-> s.index, b |-> s.b]

\* d2fixed with e2 < 0, the digits of the fraction before they are rounded
d2fixedBlocks(m2, e2, precision, s) ==
  d2fixedFracLoop(m2, e2, precision, (0 - e2) \div 16, precision \div 9 + 1,
    d2fixedFracFirst(precision, precision \div 9 + 1, MIN_BLOCK_2((0 - e2) \div 16)),
    precision \div 9,
    d2fixedFracStart(s, precision, precision \div 9 + 1, MIN_BLOCK_2((0 - e2) \div 16)))

\* d2fixed, the fraction
d2fixedFraction(m2, e2, precision, s) ==
  IF e2 < 0 THEN d2fixedRound(d2fixedBlocks(m2, e2, precision, s))
  ELSE [index |-> s.index + precision, b |-> memset(s.b, s.index, "0", precision)]

\* d2fixed, the integer part and the '.'
d2fixedHead(b, m2, e2, precision) ==
  d2fixedPoint(d2fixedNoDigit(d2fixedInteger(b, m2, e2)), precision)

d2fixedNonzero(b, m2, e2, precision) ==
  d2fixedFraction(m2, e2, precision, d2fixedHead(b, m2, e2, precision))

\* int d2fixed_buffered_n(d, precision, result): the returned index and the
\* result area b after the call
d2fixed_buffered_n(ieeeMantissa, ieeeExponent, precision, b) ==
  IF ieeeMantissa = <<>> /\ ieeeExponent = 0 THEN d2fixedZero(b, precision)
  ELSE d2fixedNonzero(b, FixedM2(ieeeMantissa, ieeeExponent), FixedE2(ieeeExponent), precision)

\* the zero case of d2exp
d2expZero(b, precision) ==
  [index |-> (IF precision > 0 THEN 2 + precision ELSE 1) + 4,
   b |-> Store(Store(Store(Store(
           IF precision > 0
           THEN memset(Store(Store(b, 0, "0"), 1, "."), 2, "0", precision)
           ELSE Store(b, 0, "0"),
           (IF precision > 0 THEN 2 + precision ELSE 1), "e"),
           (IF precision > 0 THEN 2 + precision ELSE 1) + 1, "+"),
           (IF precision > 0 THEN 2 + precision ELSE 1) + 2, "0"),
           (IF precision > 0 THEN 2 + precision ELSE 1) + 3, "0")]

\* d2exp, the first nonzero block: available is its number of digits.
\* precision is the incremented precision, the number of digits to print.
d2expFirstBlock(s, digits, precision, printDecimalPoint, expBase, available) ==
  IF available > precision
  THEN [index |-> s.index, digits |-> digits, printedDigits |-> s.printedDigits,
        availableDigits |-> available, exp |-> expBase + available - 1, b |-> s.b]
  ELSE [index |-> s.index + (IF printDecimalPoint THEN available + 1 ELSE 1),
        digits |-> digits, printedDigits |-> available, availableDigits |-> 0,
        exp |-> expBase + available - 1,
        b |-> IF printDecimalPoint THEN append_d_digits(available, digits, s.b, s.index)
              ELSE Store(s.b, s.index, Char(digits))]

\* d2exp, one round of either loop over the blocks; a round that leaves
\* availableDigits nonzero is one that leaves the loop
d2expBlock(s, digits, precision, printDecimalPoint, expBase) ==
  IF digits = digits /\ s.printedDigits # 0
  THEN IF s.printedDigits + 9 > precision
       THEN [index |-> s.index, digits |-> digits, printedDigits |-> s.printedDigits,
             availableDigits |-> 9, exp |-> s.exp, b |-> s.b]
       ELSE [index |-> s.index + 9, digits |-> digits,
             printedDigits |-> s.printedDigits + 9, availableDigits |-> 0,
             exp |-> s.exp, b |-> append_nine_digits(digits, s.b, s.index)]
  ELSE IF digits # 0
  THEN d2expFirstBlock(s, digits, precision, printDecimalPoint, expBase, decimalLength9(digits))
  ELSE [index |-> s.index, digits |-> digits, printedDigits |-> s.printedDigits,
        availableDigits |-> s.availableDigits, exp |-> s.exp, b |-> s.b]

\* d2exp, round i of the loop over the blocks of the integer part
d2expIntBlock(m2, e2, precision, printDecimalPoint, idx, i, s) ==
  IF s.availableDigits # 0 THEN s
  ELSE d2expBlock(s, IntegerBlock(m2, e2, idx, i), precision, printDecimalPoint, i * 9)

\* d2exp, the loop over the blocks of the integer part: the rounds i = hi down
\* to i = lo, the upper half of them first; after a break the rounds do nothing
RECURSIVE d2expIntLoop(_, _, _, _, _, _, _, _)
d2expIntRest(m2, e2, precision, printDecimalPoint, idx, hi, lo, s) ==
  Then(s, d2expIntLoop(m2, e2, precision, printDecimalPoint, idx, hi, lo, s))
d2expIntLoop(m2, e2, precision, printDecimalPoint, idx, hi, lo, s) ==
  IF hi < lo THEN s
  ELSE IF hi = lo THEN d2expIntBlock(m2, e2, precision, printDecimalPoint, idx, hi, s)
  ELSE d2expIntRest(m2, e2, precision, printDecimalPoint, idx, (hi + lo + 1) \div 2 - 1, lo,
         d2expIntLoop(m2, e2, precision, printDecimalPoint, idx, hi, (hi + lo + 1) \div 2, s))

d2expInteger(b, m2, e2, precision, printDecimalPoint) ==
  IF e2 >= -52
  THEN d2expIntLoop(m2, e2, precision, printDecimalPoint,
                    IF e2 < 0 THEN 0 ELSE indexForExponent(e2),
                    lengthForIndex(IF e2 < 0 THEN 0 ELSE indexForExponent(e2)) - 1, 0,
                    [index |-> 0, digits |-> 0, printedDigits |-> 0, availableDigits |-> 0,
                     exp |-> 0, b |-> b])
  ELSE [index |-> 0, digits |-> 0, printedDigits |-> 0, availableDigits |-> 0,
        exp |-> 0, b |-> b]

\* d2exp, round i of the loop over the blocks of the fraction
d2expFracBlock(m2, e2, precision, printDecimalPoint, idx, i, s) ==
  IF s.availableDigits # 0 THEN s
  ELSE d2expBlock(s,
         IF POW10_OFFSET_2(idx) + i - MIN_BLOCK_2(idx) >= POW10_OFFSET_2(idx + 1) THEN 0
         ELSE FractionBlock(m2, e2, idx, POW10_OFFSET_2(idx) + i - MIN_BLOCK_2(idx)),
         precision, printDecimalPoint, (0 - (i + 1)) * 9)

\* d2exp, the loop over the blocks of the fraction: the rounds i = lo to
\* i = hi, the lower half of them first; after a break the rounds do nothing
RECURSIVE d2expFracLoop(_, _, _, _, _, _, _, _)
d2expFracRest(m2, e2, precision, printDecimalPoint, idx, lo, hi, s) ==
  Then(s, d2expFracLoop(m2, e2, precision, printDecimalPoint, idx, lo, hi, s))
d2expFracLoop(m2, e2, precision, printDecimalPoint, idx, lo, hi, s) ==
  IF hi < lo THEN s
  ELSE IF hi = lo THEN d2expFracBlock(m2, e2, precision, printDecimalPoint, idx, lo, s)
  ELSE d2expFracRest(m2, e2, precision, printDecimalPoint, idx, (lo + hi) \div 2 + 1, hi,
         d2expFracLoop(m2, e2, precision, printDecimalPoint, idx, lo, (lo + hi) \div 2, s))

d2expFraction(m2, e2, precision, printDecimalPoint, s) ==
  IF e2 < 0 /\ s.availableDigits = 0
  THEN d2expFracLoop(m2, e2, precision, printDecimalPoint, (0 - e2) \div 16,
                     MIN_BLOCK_2((0 - e2) \div 16), 199, s)
  ELSE s

\* d2exp, the rounding of a tie: half up
d2expRoundUp_HalfUp(m2, e2, precision, exp, lastDigit) == Bool2Int(lastDigit >= 5)

\* d2exp: 0 = don't round up; 1 = round up unconditionally; 2 = round up if odd
d2expRoundUp(m2, e2, precision, exp, lastDigit) ==
  IF lastDigit # 5 THEN Bool2Int(lastDigit > 5)
  ELSE IF /\ \/ (0 - e2) - (precision - exp) <= 0
             \/ /\ (0 - e2) - (precision - exp) < 60
                /\ multipleOfPowerOf2(m2, (0 - e2) - (precision - exp))
          /\ (precision - exp < 0 => multipleOfPowerOf5(m2, 0 - (precision - exp)))
  THEN 2 ELSE 1

\* d2exp, rounding up: the walk from the last digit written to the first
RECURSIVE d2expRoundWalk(_, _, _, _)
d2expRoundWalk(b, exp, roundIndex, roundUp) ==
  IF roundIndex = -1 THEN [exp |-> exp + 1, b |-> Store(b, 0, "1")]
  ELSE IF b[roundIndex + 1] = "." THEN d2expRoundWalk(b, exp, roundIndex - 1, roundUp)
  ELSE IF b[roundIndex + 1] = "9"
  THEN d2expRoundWalk(Store(b, roundIndex, "0"), exp, roundIndex - 1, 1)
  ELSE IF roundUp = 2 /\ CharCode(b[roundIndex + 1]) % 2 = 0 THEN [exp |-> exp, b |-> b]
  ELSE [exp |-> exp,
        b |-> Store(b, roundIndex, Char(CharCode(b[roundIndex + 1]) + 1 - 48))]

\* the digits of an exponent, two or three, at result + index
ExponentDigits(b, index, exp) ==
  IF exp >= 100
  THEN [index |-> index + 3,
        b |-> Store(memcpy2(b, index, 2 * (exp \div 10)), index + 2, Char(exp % 10))]
  ELSE [index |-> index + 2, b |-> memcpy2(b, index, 2 * exp)]

\* d2exp, the 'e', the sign and the digits of the exponent
d2expExponent(b, index, exp) ==
  IF exp < 0 THEN ExponentDigits(Store(Store(b, index, "e"), index + 1, "-"), index + 2, 0 - exp)
  ELSE ExponentDigits(Store(Store(b, index, "e"), index + 1, "+"), index + 2, exp)

d2expRounded(index, r) == d2expExponent(r.b, index, r.exp)

\* d2exp printing the digits as they were written
d2expRound_Keep(u) == d2expRounded(u.index, [exp |-> u.exp, b |-> u.b])

\* d2exp, the rounding of the digits written u and the exponent
d2expRound(u) ==
  d2expRounded(u.index,
    IF u.roundUp # 0 THEN d2expRoundWalk(u.b, u.exp, u.index - 1, u.roundUp)
    ELSE [exp |-> u.exp, b |-> u.b])

\* d2exp, the last digits: dl is <<digits, lastDigit>>, maximum the number of
\* digits still to print
d2expLastDigits(m2, e2, precision, printDecimalPoint, s, maximum, dl) ==
  [b |-> IF s.printedDigits # 0
         THEN IF dl[1] = 0 THEN memset(s.b, s.index, "0", maximum)
              ELSE append_c_digits(maximum, dl[1], s.b, s.index)
         ELSE IF printDecimalPoint THEN append_d_digits(maximum, dl[1], s.b, s.index)
         ELSE Store(s.b, s.index, Char(dl[1])),
   index |-> IF s.printedDigits # 0 THEN s.index + maximum
             ELSE IF printDecimalPoint THEN s.index + maximum + 1
             ELSE s.index + 1,
   exp |-> s.exp,
   roundUp |-> d2expRoundUp(m2, e2, precision, s.exp, dl[2])]

d2expTail(m2, e2, precision, printDecimalPoint, s) ==
  d2expLastDigits(m2, e2, precision, printDecimalPoint, s, precision - s.printedDigits,
    IF s.availableDigits > precision - s.printedDigits
    THEN DropDigits(IF s.availableDigits = 0 THEN 0 ELSE s.digits, 0,
                    s.availableDigits - (precision - s.printedDigits))
    ELSE <<(IF s.availableDigits = 0 THEN 0 ELSE s.digits), 0>>)

\* d2exp, the digits before they are rounded, with the decision roundUp
d2expDigits(b, m2, e2, precision, printDecimalPoint) ==
  d2expTail(m2, e2, precision, printDecimalPoint,
    d2expFraction(m2, e2, precision, printDecimalPoint,
      d2expInteger(b, m2, e2, precision, printDecimalPoint)))

d2expNonzero(b, m2, e2, precision, printDecimalPoint) ==
  d2expRound(d2expDigits(b, m2, e2, precision, printDecimalPoint))

\* int d2exp_buffered_n(d, precision, result): the returned index and the
\* result area b after the call
d2exp_buffered_n(ieeeMantissa, ieeeExponent, precision, b) ==
  IF ieeeMantissa = <<>> /\ ieeeExponent = 0 THEN d2expZero(b, precision)
  ELSE d2expNonzero(b, FixedM2(ieeeMantissa, ieeeExponent), FixedE2(ieeeExponent),
                    precision + 1, precision > 0)


(***************************************************************************)
(* d2s.c: to_chars, the printing of a floating_decimal_64 into the         *)
(* caller's range [First, Last), and the entry point d2s_buffered_n.       *)
(* A result is [ptr, ec, b]: the returned pointer as an offset from First, *)
(* the returned errc, and the bytes of the range after the call.           *)
(***************************************************************************)
NoFormat == "none"
NoError == "ok"
value_too_large == "value_too_large"

\* a number below 10^16 from its four groups of four decimal digits
Dec16(a, b, c, d) ==
  BnAdd(BnMulSmall(BnAdd(BnMulSmall(BnAdd(BnMulSmall(BnOf(a), 10000), BnOf(b)), 10000), BnOf(c)),
                   10000),
        BnOf(d))

\* _Adjustment[309]
Adjustment ==
  <<
     0,0,0,0,0,0,0,0,0,0,0,0,0,0,0,0,0,0,0,0,0,0,0,1,1,0,0,0,1,1,0,1,0,1,1,1,0,1,1,1,0,0,0,0,0,
     1,1,0,0,1,0,1,1,1,0,0,0,0,1,1,1,1,0,0,0,1,1,1,1,0,0,0,1,1,1,1,0,1,0,1,0,1,1,0,0,0,0,1,1,1,
     1,0,0,0,0,0,0,0,1,1,0,1,1,0,0,1,0,1,0,1,0,1,1,0,0,0,0,0,1,1,1,0,0,1,1,1,1,1,0,1,0,1,1,0,1,
     1,0,0,0,0,0,0,0,0,0,1,1,1,0,0,1,0,0,1,0,0,1,1,1,1,0,0,1,1,0,1,1,0,1,1,0,1,0,0,0,1,0,0,0,1,
     0,1,0,1,0,1,1,1,0,0,0,0,0,0,1,1,1,1,0,0,1,0,1,1,1,0,0,0,1,0,1,1,1,1,1,1,0,1,0,1,1,0,0,0,1,
     1,1,0,1,1,0,0,0,1,0,0,0,1,0,1,0,0,0,0,0,0,0,1,0,1,1,0,0,1,1,1,0,0,0,1,0,1,0,0,0,0,0,1,1,0,
     0,1,0,1,1,1,0,0,1,0,0,0,0,1,0,1,0,0,0,0,0,1,0,1,0,1,1,0,1,0,0,0,0,0,1,1,0,1,0 >>

\* _Max_shifted_mantissa[23]: (2^53 - 1) / 5^0, ..., (2^53 - 1) / 5^22
Max_shifted_mantissa ==
  <<
     Dec16(9007, 1992, 5474, 991), Dec16(1801, 4398, 5094, 8198), Dec16(360, 2879, 7018, 9639),
     Dec16(72, 575, 9403, 7927), Dec16(14, 4115, 1880, 7585), Dec16(2, 8823, 376, 1517),
     Dec16(0, 5764, 6075, 2303), Dec16(0, 1152, 9215, 460), Dec16(0, 230, 5843, 92),
     Dec16(0, 46, 1168, 6018), Dec16(0, 9, 2233, 7203), Dec16(0, 1, 8446, 7440),
     Dec16(0, 0, 3689, 3488), Dec16(0, 0, 737, 8697), Dec16(0, 0, 147, 5739),
     Dec16(0, 0, 29, 5147), Dec16(0, 0, 5, 9029), Dec16(0, 0, 1, 1805),
     Dec16(0, 0, 0, 2361), Dec16(0, 0, 0, 472), Dec16(0, 0, 0, 94),
     Dec16(0, 0, 0, 18), Dec16(0, 0, 0, 3) >>

\* _BitScanForward64: the index of the lowest set bit of a nonzero x
BitScanForwardLimb(w) == CHOOSE k \in 0 .. LIMB_BITS - 1 : w % Pow2Small(k + 1) = Pow2Small(k)

BitScanForwardAt(x, i) == LIMB_BITS * (i - 1) + BitScanForwardLimb(x[i])

BitScanForward64(x) ==
  BitScanForwardAt(x, CHOOSE i \in 1 .. Len(x) : x[i] # 0 /\ \A j \in 1 .. i - 1 : x[j] = 0)

\* _Lower and _Upper of chars_format{}
to_charsLower(olength) == IF olength = 1 THEN -3 ELSE -(olength + 3)

to_charsUpper_Unified(olength) == 5

to_charsUpper(olength) == IF olength = 1 THEN 4 ELSE 5

to_charsGeneralFixed_Inclusive(scientificExponent) ==
  -4 <= scientificExponent /\ scientificExponent <= 6

\* chars_format::general: P > X >= -4 with P = 6
to_charsGeneralFixed(scientificExponent) ==
  -4 <= scientificExponent /\ scientificExponent < 6

\* _Fmt after the selection: "fixed" or "scientific"
to_charsFormat(fmt, olength, ryuExponent) ==
  IF fmt = NoFormat
  THEN IF to_charsLower(olength) <= ryuExponent /\ ryuExponent <= to_charsUpper(olength)
       THEN "fixed" ELSE "scientific"
  ELSE IF fmt = "general"
  THEN IF to_charsGeneralFixed(ryuExponent + olength - 1) THEN "fixed" ELSE "scientific"
  ELSE fmt

\* _Total_fixed_length
\* _Total_fixed_length without the adjustment
to_charsTotalFixedLength_Unadjusted(output, olength, ryuExponent) ==
  IF ryuExponent >= 0 THEN olength + ryuExponent
  ELSE IF olength + ryuExponent > 0 THEN olength + 1
  ELSE 2 - ryuExponent

to_charsTotalFixedLength(output, olength, ryuExponent) ==
  IF ryuExponent >= 0
  THEN olength + ryuExponent - (IF output = <<1>> THEN Adjustment[ryuExponent + 1] ELSE 0)
  ELSE IF olength + ryuExponent > 0 THEN olength + 1
  ELSE 2 - ryuExponent

to_charsCanUseRyu_Always(mantissa, ryuExponent) == TRUE

\* _Can_use_ryu
to_charsCanUseRyu(mantissa, ryuExponent) ==
  /\ ryuExponent <= 22
  /\ BnLe(BnShr(mantissa, BitScanForward64(mantissa)), Max_shifted_mantissa[ryuExponent + 1])

\* The 4-argument d2fixed_buffered_n(First, Last, f, precision) that to_chars
\* and d2s_buffered_n call is not among the sources.  It is the bounded form
\* of d2fixed_buffered_n: the same text, written when the range holds it, and
\* otherwise value_too_large with the range as it was.
d2fixedCopy(b, last, r) ==
  IF r.index > last THEN [ptr |-> last, ec |-> value_too_large, b |-> b]
  ELSE [ptr |-> r.index, ec |-> NoError,
        b |-> [k \in 1 .. Len(b) |-> IF k <= r.index THEN r.b[k] ELSE b[k]]]

d2fixed_to_chars(b, last, ieeeMantissa, ieeeExponent, precision) ==
  d2fixedCopy(b, last, d2fixed_buffered_n(ieeeMantissa, ieeeExponent, precision, <<>>))

\* four digits c below Mid
to_charsFixedFour(c, b, mid) ==
  memcpy2(memcpy2(b, mid - 2, (c % 100) * 2), mid - 4, (c \div 100) * 2)

\* eight digits below Mid
to_charsFixedEight(output2, b, mid) ==
  to_charsFixedFour((output2 \div 10000) % 10000, to_charsFixedFour(output2 % 10000, b, mid),
                    mid - 4)

to_charsFixedTail(output2, b, mid) ==
  IF output2 >= 10 THEN memcpy2(b, mid - 2, output2 * 2)
  ELSE Store(b, mid - 1, Char(output2))

to_charsFixedHundreds(output2, b, mid) ==
  IF output2 >= 100
  THEN to_charsFixedTail(output2 \div 100, memcpy2(b, mid - 2, (output2 % 100) * 2), mid - 2)
  ELSE to_charsFixedTail(output2, b, mid)

\* while (output2 >= 10000); output2 is a uint32_t
RECURSIVE to_charsFixedLoop(_, _, _)
to_charsFixedLoop(output2, b, mid) ==
  IF BnLe(BnOf(10000), output2)
  THEN to_charsFixedLoop(BnDivSmall(output2, 10000),
                         to_charsFixedFour(BnModSmall(output2, 10000), b, mid), mid - 4)
  ELSE to_charsFixedHundreds(BnSmall(output2), b, mid)

\* the decimal digits of output, ending just below result + mid
to_charsFixedDigits(output, b, mid) ==
  IF BnShr(output, 32) # <<>>
  THEN to_charsFixedLoop(
         U32(div1e8(output)),
         to_charsFixedEight(BnSmall(U32(BnSub(output, BnMulPow10(div1e8(output), 8)))), b, mid),
         mid - 8)
  ELSE to_charsFixedLoop(U32(output), b, mid)

to_charsFixedFill_NoZeros(b, olength, ryuExponent, wholeDigits) ==
  IF ryuExponent >= 0 THEN b
  ELSE IF wholeDigits > 0 THEN Store(memmove(b, 0, 1, wholeDigits), wholeDigits, ".")
  ELSE memset(Store(Store(b, 0, "0"), 1, "."), 2, "0", -wholeDigits)

\* the zeros and the decimal point around the digits
to_charsFixedFill(b, olength, ryuExponent, wholeDigits) ==
  IF ryuExponent > 0 THEN memset(b, olength, "0", ryuExponent)
  ELSE IF ryuExponent = 0 THEN b
  ELSE IF wholeDigits > 0 THEN Store(memmove(b, 0, 1, wholeDigits), wholeDigits, ".")
  ELSE memset(Store(Store(b, 0, "0"), 1, "."), 2, "0", -wholeDigits)

\* the fixed layout
to_charsFixed(b, last, output, ryuExponent, olength, totalFixedLength, ieeeMantissa, ieeeExponent) ==
  IF last < totalFixedLength THEN [ptr |-> last, ec |-> value_too_large, b |-> b]
  ELSE IF ryuExponent > 0 /\ ~to_charsCanUseRyu(output, ryuExponent)
  THEN d2fixed_to_chars(b, last, ieeeMantissa, ieeeExponent, 0)
  ELSE [ptr |-> totalFixedLength, ec |-> NoError,
        b |-> to_charsFixedFill(
                to_charsFixedDigits(output, b,
                                    IF ryuExponent > 0 THEN olength ELSE totalFixedLength),
                olength, ryuExponent, olength + ryuExponent)]

to_charsTotalScientificLength_NoPoint(olength, scientificExponent) ==
  olength + (IF -100 < scientificExponent /\ scientificExponent < 100 THEN 4 ELSE 5)

\* _Total_scientific_length
to_charsTotalScientificLength(olength, scientificExponent) ==
  olength + Bool2Int(olength > 1)
    + (IF -100 < scientificExponent /\ scientificExponent < 100 THEN 4 ELSE 5)

\* four digits c at result + olength - i - 3
to_charsSciFour(olength, c, i, b) ==
  memcpy2(memcpy2(b, olength - i - 1, (c % 100) * 2), olength - i - 3, (c \div 100) * 2)

to_charsSciEight(olength, output2, b) ==
  to_charsSciFour(olength, (output2 \div 10000) % 10000, 4,
                  to_charsSciFour(olength, output2 % 10000, 0, b))

\* the first two digits leave room for the decimal point
to_charsSciTail(output2, b) ==
  IF output2 >= 10
  THEN Store(Store(b, 2, DIGIT_TABLE(output2 * 2 + 1)), 0, DIGIT_TABLE(output2 * 2))
  ELSE Store(b, 0, Char(output2))

to_charsSciHundreds(olength, output2, i, b) ==
  IF output2 >= 100
  THEN to_charsSciTail(output2 \div 100, memcpy2(b, olength - i - 1, (output2 % 100) * 2))
  ELSE to_charsSciTail(output2, b)

RECURSIVE to_charsSciLoop(_, _, _, _)
to_charsSciLoop(olength, output2, i, b) ==
  IF BnLe(BnOf(10000), output2)
  THEN to_charsSciLoop(olength, BnDivSmall(output2, 10000), i + 4,
                       to_charsSciFour(olength, BnModSmall(output2, 10000), i, b))
  ELSE to_charsSciHundreds(olength, BnSmall(output2), i, b)

\* the decimal digits of output at result[0] and result[2 ..]
to_charsSciDigits(olength, output, b) ==
  IF BnShr(output, 32) # <<>>
  THEN to_charsSciLoop(olength, U32(div1e8(output)), 8,
                       to_charsSciEight(olength, Lo32MinusTimes(output, 100000000, div1e8(output)), b))
  ELSE to_charsSciLoop(olength, U32(output), 0, b)

\* the decimal point, if any
to_charsSciPoint(olength, b) == IF olength > 1 THEN Store(b, 1, ".") ELSE b

to_charsExponentDigits_Two(b, index, scientificExponent) ==
  memcpy2(b, index, 2 * (scientificExponent % 100))

\* the two or three digits of the exponent
to_charsExponentDigits(b, index, scientificExponent) ==
  IF scientificExponent >= 100
  THEN Store(memcpy2(b, index, 2 * (scientificExponent \div 10)), index + 2,
             Char(scientificExponent % 10))
  ELSE memcpy2(b, index, 2 * scientificExponent)

to_charsExponent_NoPlus(b, index, scientificExponent) ==
  IF scientificExponent < 0
  THEN to_charsExponentDigits(Store(Store(b, index, "E"), index + 1, "-"), index + 2,
                              -scientificExponent)
  ELSE to_charsExponentDigits(Store(b, index, "E"), index + 1, scientificExponent)

\* 'e', the sign and the two or three digits of the exponent
to_charsExponent(b, index, scientificExponent) ==
  IF scientificExponent < 0
  THEN to_charsExponentDigits(Store(Store(b, index, "e"), index + 1, "-"), index + 2,
                              -scientificExponent)
  ELSE to_charsExponentDigits(Store(Store(b, index, "e"), index + 1, "+"), index + 2,
                              scientificExponent)

\* the scientific layout
to_charsScientific(b, last, output, olength, scientificExponent, totalScientificLength) ==
  IF last < totalScientificLength THEN [ptr |-> last, ec |-> value_too_large, b |-> b]
  ELSE [ptr |-> totalScientificLength, ec |-> NoError,
        b |-> to_charsExponent(to_charsSciPoint(olength, to_charsSciDigits(olength, output, b)),
                               IF olength > 1 THEN olength + 1 ELSE 1, scientificExponent)]

to_charsLayout(b, last, v, layout, olength, ieeeMantissa, ieeeExponent) ==
  IF layout = "fixed"
  THEN to_charsFixed(b, last, v.mantissa, v.exponent, olength,
                     to_charsTotalFixedLength(v.mantissa, olength, v.exponent),
                     ieeeMantissa, ieeeExponent)
  ELSE to_charsScientific(b, last, v.mantissa, olength, v.exponent + olength - 1,
                          to_charsTotalScientificLength(olength, v.exponent + olength - 1))

to_charsLength(b, last, v, fmt, olength, ieeeMantissa, ieeeExponent) ==
  to_charsLayout(b, last, v, to_charsFormat(fmt, olength, v.exponent), olength,
                 ieeeMantissa, ieeeExponent)

\* to_chars(First, Last, v, Fmt, f); f is the double (ieeeMantissa, ieeeExponent)
to_chars(b, last, v, fmt, ieeeMantissa, ieeeExponent) ==
  to_charsLength(b, last, v, fmt, decimalLength17(v.mantissa), ieeeMantissa, ieeeExponent)

\* memcpy(First, "0e+00", 5)
memcpyZero(b) ==
  Store(Store(Store(Store(Store(b, 0, "0"), 1, "e"), 2, "+"), 3, "0"), 4, "0")

d2sZero_Short(b, last, fmt) ==
  IF fmt = "scientific"
  THEN IF last < 5 THEN [ptr |-> last, ec |-> value_too_large, b |-> b]
       ELSE [ptr |-> 5, ec |-> NoError, b |-> memcpyZero(b)]
  ELSE IF last < 3 THEN [ptr |-> last, ec |-> value_too_large, b |-> b]
  ELSE [ptr |-> 3, ec |-> NoError, b |-> Store(Store(Store(b, 0, "0"), 1, "E"), 2, "0")]

\* d2s_buffered_n, bits == 0
d2sZero(b, last, fmt) ==
  IF fmt = "scientific"
  THEN IF last < 5 THEN [ptr |-> last, ec |-> value_too_large, b |-> b]
       ELSE [ptr |-> 5, ec |-> NoError, b |-> memcpyZero(b)]
  ELSE IF last = 0 THEN [ptr |-> last, ec |-> value_too_large, b |-> b]
  ELSE [ptr |-> 1, ec |-> NoError, b |-> Store(b, 0, "0")]

\* a result together with the floating_decimal_64 it printed, <<>> if none
WithDecimal(r, dec) == [ptr |-> r.ptr, ec |-> r.ec, b |-> r.b, v |-> dec]

d2sPrint(b, last, v, fmt, ieeeMantissa, ieeeExponent) ==
  WithDecimal(to_chars(b, last, v, fmt, ieeeMantissa, ieeeExponent), <<v>>)

\* d2s_buffered_n(First, Last, f, Fmt)
d2s_buffered_n(b, last, ieeeMantissa, ieeeExponent, fmt) ==
  IF ieeeMantissa = <<>> /\ ieeeExponent = 0 THEN WithDecimal(d2sZero(b, last, fmt), <<>>)
  ELSE IF fmt = "fixed" /\ ieeeExponent - DOUBLE_BIAS - DOUBLE_MANTISSA_BITS > 0
  THEN WithDecimal(d2fixed_to_chars(b, last, ieeeMantissa, ieeeExponent, 0), <<>>)
  ELSE d2sPrint(b, last, d2sDecimal(ieeeMantissa, ieeeExponent), fmt, ieeeMantissa, ieeeExponent)


(***************************************************************************)
(* The state: one call of an entry point on a double given by its IEEE     *)
(* fields, with the caller's byte range [First, Last) of bufLen bytes.     *)
(***************************************************************************)
VARIABLES
  ieeeMantissa,   \* low 52 bits of the double
  ieeeExponent,   \* the 11 exponent bits of the double
  fmt,            \* chars_format: "none" is chars_format{}
  precision,      \* precision of d2fixed / d2exp
  bufLen,         \* Last - First
  buf,            \* the bytes of [First, Last); "" is a byte never written
  ret,            \* what the call returned, <<>> before it returns
  v,              \* the floating_decimal_64 the call computed, <<>> if none
  prev,           \* the floating_decimal_64 of the double just below
  steps,          \* doubles visited since the first one
  loop,           \* d2d between its steps: the scaled interval c and the triple s
  pc              \* "call": about to call; "done": returned; else inside d2d

vars == <<ieeeMantissa, ieeeExponent, fmt, precision, bufLen, buf, ret, v, prev, steps, loop, pc>>

\* a 52-bit mantissa from its high and low 26 bits
Bits52(hi, lo) == BnAdd(BnShl(BnOf(hi), 26), BnOf(lo))

MantissaMask == BnSub(Two(DOUBLE_MANTISSA_BITS), <<1>>)

\* Mantissas the runs start from: 0 (a power of two), 1, the last two below the
\* next power of two, 0x8000000000000 (1.5 * 2^k), 0x4000000000000 (1.25 * 2^k,
\* multiples of ten among the integers) and the one below it, and the mantissas of
\* 0.1 (0x999999999999A), pi (0x921FB54442D18), 1e22 (0x0F0CF064DD592) and
\* 1e23 (0x52D02C7E14AF6).
SeedMantissas ==
  { <<>>, <<1>>, BnSub(MantissaMask, <<1>>), Bits52(33554432, 0),
    Bits52(16777215, 67108863), Bits52(16777216, 0), Bits52(40265318, 26843546), Bits52(38305493, 4467992),
    Bits52(3945409, 38655378), Bits52(21708977, 65096438) }

\* Exponent fields the runs start from: subnormals, the smallest normals,
\* 2^-500, 0.1's, [0.5, 4), 2^30, 2^52, 2^53, 1e22's, 1e23's, 2^477, the largest.
SeedExponents == { 0, 1, 2, 523, 1019, 1022, 1023, 1024, 1053, 1075, 1076, 1096, 1099, 1500, 2046 }

\* how many doubles a run visits after the first
MaxRun == 2

\* d2s_buffered_n up to its call of to_chars: the zero case prints the digit 0,
\* every other double goes through d2d_small_int or d2d.
ShortestDecimal(m, e) ==
  IF m = <<>> /\ e = 0 THEN [mantissa |-> <<>>, exponent |-> 0]
  ELSE d2sDecimal(m, e)

InitShortest ==
  /\ ieeeMantissa \in SeedMantissas
  /\ ieeeExponent \in SeedExponents
  /\ fmt = NoFormat
  /\ precision = 0
  /\ bufLen = 0
  /\ buf = <<>>
  /\ ret = <<>>
  /\ v = <<>>
  /\ prev = <<>>
  /\ loop = <<>>
  /\ steps = 0
  /\ pc = "call"

\* The shortest conversion of the current double.
Shortest ==
  /\ pc = "call"
  /\ v' = <<ShortestDecimal(ieeeMantissa, ieeeExponent)>>
  /\ pc' = "done"
  /\ UNCHANGED <<ieeeMantissa, ieeeExponent, fmt, precision, bufLen, buf, ret, prev, steps, loop>>

\* The caller moves on to the next larger finite double.
NextDouble ==
  /\ pc = "done"
  /\ steps < MaxRun
  /\ ~(ieeeMantissa = MantissaMask /\ ieeeExponent = 2046)
  /\ IF ieeeMantissa = MantissaMask
     THEN ieeeMantissa' = <<>> /\ ieeeExponent' = ieeeExponent + 1
     ELSE ieeeMantissa' = BnAdd(ieeeMantissa, <<1>>) /\ ieeeExponent' = ieeeExponent
  /\ prev' = v
  /\ v' = <<>>
  /\ steps' = steps + 1
  /\ pc' = "call"
  /\ UNCHANGED <<fmt, precision, bufLen, buf, ret, loop>>

NextShortest == Shortest \/ NextDouble

SpecShortest == InitShortest /\ [][NextShortest]_vars

(***************************************************************************)
(* d2d step by step, as d2s_buffered_n calls it: the state between the     *)
(* steps is the scaled interval c of step 3 and the locals s of step 4.    *)
(* pc is "general" at the head of the first loop of the general case,      *)
(* "zeros" at the head of its second loop, "round" after both, "fast100"   *)
(* before the division by 100 of the common case, "fast" at the head of    *)
(* its loop.                                                               *)
(***************************************************************************)

\* Mantissas whose mv, mp or mm is a multiple of 5^22 or 5^23: 3 * 5^22,
\* (5^23 + 1) / 2, (7 * 5^22 - 1) / 2 and (7 * 5^22 + 1) / 2; 2 * 5^22 and
\* (5^23 - 1) / 2 are among the seeds.
FiveMantissas ==
  { Bits52(39472546, 24428635), Bits52(21708977, 65096439),
    Bits52(57236114, 50869695), Bits52(57236114, 50869696) }

\* Exponent fields with e2 = 77, 78, 79 (q = 22) and e2 = 80 (q = 23)
FiveExponents == { 1154, 1155, 1156, 1157 }

IntervalDoubles ==
  { d \in (SeedMantissas \cup FiveMantissas) \X (SeedExponents \cup FiveExponents) :
      d # <<<<>>, 0>> }

InitInterval ==
  /\ \E d \in IntervalDoubles : ieeeMantissa = d[1] /\ ieeeExponent = d[2]
  /\ fmt = NoFormat
  /\ precision = 0
  /\ bufLen = 0
  /\ buf = <<>>
  /\ ret = <<>>
  /\ v = <<>>
  /\ prev = <<>>
  /\ loop = <<>>
  /\ steps = 0
  /\ pc = "call"

d2dIsGeneral(c) == c.vmIsTrailingZeros \/ c.vrIsTrailingZeros

\* steps 1 to 3 have produced c: the branch of step 4 is chosen
D2dEnter(c) ==
  /\ loop' = [c |-> c, s |-> IF d2dIsGeneral(c) THEN d2dGeneralStart(c) ELSE d2dFastStart(c)]
  /\ pc' = IF d2dIsGeneral(c) THEN "general" ELSE "fast100"

\* d2s_buffered_n: the double is a small integer, d2d is not called
D2sSmallInt ==
  /\ pc = "call"
  /\ d2d_small_int(ieeeMantissa, ieeeExponent)[1]
  /\ v' = <<d2sDecimal(ieeeMantissa, ieeeExponent)>>
  /\ pc' = "done"
  /\ UNCHANGED <<ieeeMantissa, ieeeExponent, fmt, precision, bufLen, buf, ret, prev, steps, loop>>

\* d2s_buffered_n calls d2d: steps 1 to 3
D2dScale ==
  /\ pc = "call"
  /\ ~d2d_small_int(ieeeMantissa, ieeeExponent)[1]
  /\ D2dEnter(d2dScale(d2dDecode(ieeeMantissa, ieeeExponent)))
  /\ UNCHANGED <<ieeeMantissa, ieeeExponent, fmt, precision, bufLen, buf, ret, v, prev, steps>>

\* one round of the first loop of the general case
D2dGeneralIter ==
  /\ pc = "general"
  /\ BnLt(div10(loop.s.vm), div10(loop.s.vp))
  /\ loop' = [loop EXCEPT !.s =
                d2dGeneralStep(@, div10(@.vp), div10(@.vm), div10(@.vr),
                  @.vmIsTrailingZeros /\ Lo32MinusTimes(@.vm, 10, div10(@.vm)) = 0)]
  /\ UNCHANGED <<ieeeMantissa, ieeeExponent, fmt, precision, bufLen, buf, ret, v, prev, steps, pc>>

\* the break of the first loop of the general case
D2dGeneralBreak ==
  /\ pc = "general"
  /\ BnLe(div10(loop.s.vp), div10(loop.s.vm))
  /\ pc' = IF loop.s.vmIsTrailingZeros THEN "zeros" ELSE "round"
  /\ UNCHANGED <<ieeeMantissa, ieeeExponent, fmt, precision, bufLen, buf, ret, v, prev, steps, loop>>

\* one round of the second loop of the general case
D2dZerosIter ==
  /\ pc = "zeros"
  /\ Lo32MinusTimes(loop.s.vm, 10, div10(loop.s.vm)) = 0
  /\ loop' = [loop EXCEPT !.s =
                d2dGeneralStep(@, div10(@.vp), div10(@.vm), div10(@.vr), @.vmIsTrailingZeros)]
  /\ UNCHANGED <<ieeeMantissa, ieeeExponent, fmt, precision, bufLen, buf, ret, v, prev, steps, pc>>

\* the break of the second loop of the general case
D2dZerosBreak ==
  /\ pc = "zeros"
  /\ Lo32MinusTimes(loop.s.vm, 10, div10(loop.s.vm)) # 0
  /\ pc' = "round"
  /\ UNCHANGED <<ieeeMantissa, ieeeExponent, fmt, precision, bufLen, buf, ret, v, prev, steps, loop>>

\* the general case rounds and d2d returns
D2dGeneralReturn ==
  /\ pc = "round"
  /\ v' = <<d2dResult(loop.c, d2dGeneralOutput(loop.s, loop.c.acceptBounds))>>
  /\ pc' = "done"
  /\ UNCHANGED <<ieeeMantissa, ieeeExponent, fmt, precision, bufLen, buf, ret, prev, steps, loop>>

\* the common case tries to remove two digits at once
D2dFastFirst ==
  /\ pc = "fast100"
  /\ loop' = [loop EXCEPT !.s = d2dFastFirst(@, div100(@.vp), div100(@.vm), div100(@.vr))]
  /\ pc' = "fast"
  /\ UNCHANGED <<ieeeMantissa, ieeeExponent, fmt, precision, bufLen, buf, ret, v, prev, steps>>

\* one round of the loop of the common case
D2dFastIter ==
  /\ pc = "fast"
  /\ BnLt(div10(loop.s.vm), div10(loop.s.vp))
  /\ loop' = [loop EXCEPT !.s =
                [vr |-> div10(@.vr), vp |-> div10(@.vp), vm |-> div10(@.vm),
                 roundUp |-> Lo32MinusTimes(@.vr, 10, div10(@.vr)) >= 5,
                 removed |-> @.removed + 1]]
  /\ UNCHANGED <<ieeeMantissa, ieeeExponent, fmt, precision, bufLen, buf, ret, v, prev, steps, pc>>

\* the common case rounds and d2d returns
D2dFastReturn ==
  /\ pc = "fast"
  /\ BnLe(div10(loop.s.vp), div10(loop.s.vm))
  /\ v' = <<d2dResult(loop.c, d2dFastOutput(loop.s))>>
  /\ pc' = "done"
  /\ UNCHANGED <<ieeeMantissa, ieeeExponent, fmt, precision, bufLen, buf, ret, prev, steps, loop>>

NextInterval ==
  \/ D2sSmallInt
  \/ D2dScale
  \/ D2dGeneralIter
  \/ D2dGeneralBreak
  \/ D2dZerosIter
  \/ D2dZerosBreak
  \/ D2dGeneralReturn
  \/ D2dFastFirst
  \/ D2dFastIter
  \/ D2dFastReturn

SpecInterval == InitInterval /\ [][NextInterval]_vars

(***************************************************************************)
(* Step 4 of d2d, common case, entered with any interval vm <= vr <= vp    *)
(* and no trailing-zero flag.                                              *)
(***************************************************************************)
TripleValues ==
  { <<>>, BnOf(1), BnOf(9), BnOf(10), BnOf(49), BnOf(50), BnOf(99), BnOf(100), BnOf(149),
    BnOf(150), BnOf(1250), BnOf(1750), BnOf(1999), BnOf(99999), BnSub(Two(64), <<1>>) }

Triples == { t \in TripleValues \X TripleValues \X TripleValues : BnLe(t[1], t[2]) /\ BnLe(t[2], t[3]) }

TripleInterval(t, acceptBounds) ==
  [vr |-> t[2], vp |-> t[3], vm |-> t[1], e10 |-> 0,
   vrIsTrailingZeros |-> FALSE, vmIsTrailingZeros |-> FALSE, acceptBounds |-> acceptBounds]

InitTriples ==
  /\ ieeeMantissa = <<>>
  /\ ieeeExponent = 0
  /\ fmt = NoFormat
  /\ precision = 0
  /\ bufLen = 0
  /\ buf = <<>>
  /\ ret = <<>>
  /\ v = <<>>
  /\ prev = <<>>
  /\ \E t \in Triples, acceptBounds \in BOOLEAN :
       loop = [c |-> TripleInterval(t, acceptBounds),
               s |-> d2dFastStart(TripleInterval(t, acceptBounds))]
  /\ steps = 0
  /\ pc = "fast100"

NextTriples == D2dFastFirst \/ D2dFastIter \/ D2dFastReturn

SpecTriples == InitTriples /\ [][NextTriples]_vars

(***************************************************************************)
(* d2fixed and d2exp: one call on a double and a precision, writing into   *)
(* an area that starts empty and is as long as the call makes it.          *)
(***************************************************************************)
\* The doubles d2fixed and d2exp are called on, as <<ieeeMantissa, ieeeExponent>>.
PrintfDoubles ==
  {
    <<<<>>, 0>>,                                 \* 0
    <<<<>>, 1022>>,                              \* 0.5
    <<Bits52(33554432, 0), 1023>>,               \* 1.5
    <<Bits52(16777216, 0), 1024>>,               \* 2.5
    <<Bits52(21708977, 65096438), 1099>>,        \* 1e23
    <<<<>>, 1023>>,                              \* 1
    <<Bits52(40265318, 26843546), 1019>>,        \* 0.1
    <<Bits52(38305493, 4467992), 1024>>,         \* pi
    <<<<1>>, 0>>,                                \* the smallest subnormal
    <<<<>>, 1083>>,                              \* 2^60
    <<Bits52(12582912, 0), 1026>>,               \* 9.5
    <<Bits52(37224448, 0), 1029>>,               \* 99.5
    <<Bits52(16768827, 26306675), 1026>>,        \* 9.999
    <<<<>>, 1020>>,                              \* 0.125
    <<Bits52(33554432, 0), 1021>>,               \* 0.375
    <<Bits52(0, 1), 1074>>,                      \* 2^51 + 0.5
    <<<<>>, 923>>,                               \* 2^-100
    <<Bits52(31926339, 9585187), 956>>,          \* 1e-20
    <<Bits52(60397977, 40265318), 1022>>,        \* 0.95
    <<Bits52(57891135, 67108863), 1052>>,        \* 999999999.9999999
    <<<<>>, 1>>,                                 \* the smallest normal
    <<Bits52(9595721, 26526589), 1355>>,         \* 1e100
    <<Bits52(29527900, 10737418), 1018>>,        \* 0.045
    <<Bits52(8243180, 5027663), 1063>>,          \* 1234567890123.4567
    <<Bits52(56623104, 0), 1027>>,               \* 29.5
    <<Bits52(6710886, 26843546), 1022>>,         \* 0.55
    <<Bits52(9588050, 62863386), 1355>>,         \* 9.999e99
    <<Bits52(5989523, 59648745), 694>>           \* 9.96e-100
  }

\* the largest finite double
LargestDouble == <<Bits52(67108863, 67108863), 2046>>

\* Precisions: none, a few digits, a whole 9-digit block and one digit either
\* side of it, two blocks and one digit before, three blocks.
Precisions == {0, 1, 2, 3, 8, 9, 10, 17, 18, 27}

\* d2fixed prints the 309 digits of the largest double at two precisions only
FixedInputs == (PrintfDoubles \X Precisions) \cup ({LargestDouble} \X {0, 3})

ExpInputs == (PrintfDoubles \cup {LargestDouble}) \X Precisions

InitPrintf(inputs) ==
  /\ \E i \in inputs :
       /\ ieeeMantissa = i[1][1]
       /\ ieeeExponent = i[1][2]
       /\ precision = i[2]
  /\ fmt = NoFormat
  /\ bufLen = 0
  /\ buf = <<>>
  /\ ret = <<>>
  /\ v = <<>>
  /\ prev = <<>>
  /\ loop = <<>>
  /\ steps = 0
  /\ pc = "call"

\* what a call that returns the index reached leaves behind
ReturnIndex(r) ==
  /\ buf' = r.b
  /\ ret' = [ptr |-> r.index, ec |-> NoError]

InitFixed == InitPrintf(FixedInputs)

\* d2fixed_buffered_n(d, precision, result)
D2Fixed ==
  /\ pc = "call"
  /\ ReturnIndex(d2fixed_buffered_n(ieeeMantissa, ieeeExponent, precision, buf))
  /\ pc' = "done"
  /\ UNCHANGED <<ieeeMantissa, ieeeExponent, fmt, precision, bufLen, v, prev, steps, loop>>

NextFixed == D2Fixed

SpecFixed == InitFixed /\ [][NextFixed]_vars

InitExp == InitPrintf(ExpInputs)

\* d2exp_buffered_n(d, precision, result)
D2Exp ==
  /\ pc = "call"
  /\ ReturnIndex(d2exp_buffered_n(ieeeMantissa, ieeeExponent, precision, buf))
  /\ pc' = "done"
  /\ UNCHANGED <<ieeeMantissa, ieeeExponent, fmt, precision, bufLen, v, prev, steps, loop>>

NextExp == D2Exp

SpecExp == InitExp /\ [][NextExp]_vars

(***************************************************************************)
(* d2s_buffered_n: one call on a double, a format and a range of bufLen    *)
(* bytes, none of them written yet.                                        *)
(***************************************************************************)
\* The doubles d2s_buffered_n is called on, as <<ieeeMantissa, ieeeExponent>>:
\* mantissas of every length from 1 to 17 digits, exponents on both sides of
\* the layout boundaries and of the two-digit exponents.
CharsDoubles ==
  {
    <<<<>>, 0>>,                                 \* 0
    <<<<>>, 1023>>,                              \* 1
    <<Bits52(33554432, 0), 1023>>,               \* 1.5
    <<<<1>>, 0>>,                                \* the smallest subnormal
    <<Bits52(21708977, 65096438), 1099>>,        \* 1e23
    <<Bits52(3945409, 38655378), 1096>>,         \* 1e22
    <<Bits52(40265318, 26843546), 1019>>,        \* 0.1
    <<Bits52(38305493, 4467992), 1024>>,         \* pi
    <<Bits52(35291136, 0), 1039>>,               \* 1e5
    <<Bits52(14811136, 0), 1036>>,               \* 1e4
    <<Bits52(1610612, 49392124), 1013>>,         \* 1e-3
    <<Bits52(42842298, 52183853), 1009>>,        \* 1e-4
    <<Bits52(59310080, 0), 1039>>,               \* 123456
    <<Bits52(16777216, 0), 1053>>,               \* 1342177280
    <<Bits52(67108863, 67108863), 1075>>,        \* 2^53 - 1
    <<Bits52(52100425, 36962304), 1072>>,        \* 1e15
    <<<<>>, 1076>>,                              \* 2^53
    <<<<>>, 1083>>,                              \* 2^60
    <<Bits52(46577973, 48426832), 1092>>,        \* 1e21
    <<Bits52(9595721, 26526589), 1355>>,         \* 1e100
    <<Bits52(731003, 29110429), 1010>>,          \* 1234e-7
    <<Bits52(41434923, 59998460), 1006>>,        \* 1234e-8
    <<Bits52(9691136, 0), 1043>>,                \* 12e5
    <<Bits52(28891136, 0), 1046>>,               \* 12e6
    <<Bits52(26641136, 0), 1054>>,               \* 3e9, above 2^31
    <<Bits52(47869230, 40046389), 1079>>,        \* 1.2345678901234568e17
    <<Bits52(5410652, 10737418), 1027>>,         \* 17.29
    <<Bits52(58720256, 0), 1029>>,               \* 120
    <<Bits52(16777216, 0), 1023>>,               \* 1.25
    <<Bits52(15737028, 40802189), 1023>>,        \* 1.2345
    <<Bits52(11903424, 0), 1043>>,               \* 1234567
    <<Bits52(31656560, 0), 1046>>,               \* 12345678
    <<Bits52(10051629, 12582912), 1053>>,        \* 1234567891
    <<Bits52(65451853, 54813215), 1019>>,        \* 0.12345678901
    <<Bits52(53454406, 34865152), 1059>>,        \* 123456789012
    <<Bits52(15741584, 42750450), 1023>>,        \* 1.234567890123
    <<Bits52(27081191, 6284288), 1066>>,         \* 12345678901234
    <<Bits52(50628704, 58187328), 1069>>,        \* 123456789012345
    <<<<>>, 1>>,                                 \* the smallest normal
    <<Bits52(55618472, 42442542), 1351>>,        \* 1e99
    <<Bits52(47948014, 6235451), 1355>>,         \* 1.5e100
    <<Bits52(6283091, 47760190), 694>>,          \* 1e-99
    <<Bits52(50318265, 9307440), 690>>           \* 1e-100
  }

Formats == {NoFormat, "scientific", "fixed", "general"}

\* Lengths of the caller's range: around the lengths of "0" and "0e+00", of
\* "5e-324", of pi in fixed (17) and scientific (21) layout, of the 19 digits
\* of 2^60, of the 23 digits of 1e23, and of the 326 characters of the smallest
\* subnormal in fixed layout.
BufLens == {0, 1, 3, 4, 5, 6, 16, 17, 20, 21, 23, 326}

Blank(n) == [i \in 1 .. n |-> ""]

InitChars ==
  /\ \E d \in CharsDoubles :
       /\ ieeeMantissa = d[1]
       /\ ieeeExponent = d[2]
  /\ fmt \in Formats
  /\ bufLen \in BufLens
  /\ buf = Blank(bufLen)
  /\ precision = 0
  /\ ret = <<>>
  /\ v = <<>>
  /\ prev = <<>>
  /\ loop = <<>>
  /\ steps = 0
  /\ pc = "call"

\* what a call that returns a to_chars_result leaves behind
Return(r) ==
  /\ buf' = r.b
  /\ ret' = [ptr |-> r.ptr, ec |-> r.ec]
  /\ v' = r.v

\* d2s_buffered_n(First, Last, f, Fmt)
D2s ==
  /\ pc = "call"
  /\ Return(d2s_buffered_n(buf, bufLen, ieeeMantissa, ieeeExponent, fmt))
  /\ pc' = "done"
  /\ UNCHANGED <<ieeeMantissa, ieeeExponent, fmt, precision, bufLen, prev, steps, loop>>

NextChars == D2s

SpecChars == InitChars /\ [][NextChars]_vars

(***************************************************************************)
(* mulShift_mod1e9 as a function of its arguments: one call on a 64-bit m, *)
(* three 64-bit words mul and a shift j, compiled with _M_X64 or without.   *)
(***************************************************************************)
\* 1, 10^9, the largest m2 << 8 and the largest 64-bit number
Mod1e9Factors == { <<1>>, Pow10(9), BnShl(BnSub(Two(53), <<1>>), 8), BnSub(Two(64), <<1>>) }

\* 0, 1, a word of mixed bits and the largest word
Mod1e9Words == { <<>>, <<1>>, MOD1E9_MULTIPLIER_LO, BnSub(Two(64), <<1>>) }

\* the ends of the range of j and of its two halves
Mod1e9Shifts == { 128, 129, 159, 160, 161, 180 }

InitMod1e9 ==
  /\ ieeeMantissa = <<>>
  /\ ieeeExponent = 0
  /\ fmt = NoFormat
  /\ precision = 0
  /\ bufLen = 0
  /\ buf = <<>>
  /\ ret = <<>>
  /\ v = <<>>
  /\ prev = <<>>
  /\ \E m \in Mod1e9Factors, w0 \in Mod1e9Words, w1 \in Mod1e9Words, w2 \in Mod1e9Words,
        j \in Mod1e9Shifts :
       loop = [m |-> m, mul |-> <<w0, w1, w2>>, j |-> j]
  /\ steps = 0
  /\ pc = "call"

Mod1e9Return(value, branch) ==
  /\ pc = "call"
  /\ ret' = <<value>>
  /\ pc' = branch
  /\ UNCHANGED <<ieeeMantissa, ieeeExponent, fmt, precision, bufLen, buf, v, prev, steps, loop>>

\* the call in a build with _M_X64
MulShiftMod1e9X64 == Mod1e9Return(BnOf(mulShift_mod1e9(loop.m, loop.mul, loop.j)), "x64")

\* the call in a build without _M_X64
MulShiftMod1e9Chained == Mod1e9Return(mulShift_mod1e9_Chained(loop.m, loop.mul, loop.j), "chained")

NextMod1e9 == MulShiftMod1e9X64 \/ MulShiftMod1e9Chained

SpecMod1e9 == InitMod1e9 /\ [][NextMod1e9]_vars

(***************************************************************************)
(* The shifts the conversions pass down: one call of d2d, d2fixed or d2exp *)
(* in one of the builds, on a double of any exponent field, followed up to *)
(* its calls of mulShiftAll or mulShift_mod1e9.  loop holds the routine,    *)
(* the build, the arguments of mulShiftAll or the shifts j of the calls of *)
(* mulShift_mod1e9, and the distances of the calls of shiftright128.       *)
(***************************************************************************)
\* the smallest and the largest mantissa field
CallMantissas == { <<>>, MantissaMask }

InitCalls ==
  /\ ieeeMantissa \in CallMantissas
  /\ ieeeExponent \in 0 .. 2046
  /\ ~(ieeeMantissa = <<>> /\ ieeeExponent = 0)
  /\ fmt = NoFormat
  /\ precision = 0
  /\ bufLen = 0
  /\ buf = <<>>
  /\ ret = <<>>
  /\ v = <<>>
  /\ prev = <<>>
  /\ loop = <<>>
  /\ steps = 0
  /\ pc = "call"

CallsMade(routine, calls) ==
  /\ pc = "call"
  /\ loop' = calls
  /\ pc' = routine
  /\ UNCHANGED <<ieeeMantissa, ieeeExponent, fmt, precision, bufLen, buf, ret, v, prev, steps>>

D2dCallsOf(build, a) ==
  CallsMade("d2d", [build |-> build, args |-> a, dists |-> mulShiftAllDists(build, a.j, a.mmShift)])

\* d2d up to its call of mulShiftAll
D2dCalls ==
  \E build \in Builds :
    D2dCallsOf(build, d2dMulShiftAllArgs(d2dDecode(ieeeMantissa, ieeeExponent)))

Mod1e9CallsOf(routine, build, shifts) ==
  CallsMade(routine, [build |-> build, shifts |-> shifts,
                      dists |-> UNION {mulShift_mod1e9Dists(build, j) : j \in shifts}])

\* d2fixed up to its calls of mulShift_mod1e9
D2FixedCalls ==
  \E build \in Builds : Mod1e9CallsOf("d2fixed", build, d2fixedShifts(FixedE2(ieeeExponent)))

\* d2exp up to its calls of mulShift_mod1e9
D2ExpCalls ==
  \E build \in Builds : Mod1e9CallsOf("d2exp", build, d2expShifts(FixedE2(ieeeExponent)))

NextCalls == D2dCalls \/ D2FixedCalls \/ D2ExpCalls

SpecCalls == InitCalls /\ [][NextCalls]_vars

(***************************************************************************)
(* mulShiftAll as a function of its arguments: one call in one of the      *)
(* builds on m below 2^53, a multiplier below 2^124, mmShift and a shift   *)
(* that d2d passes.  The arguments are chosen, or they are those of the    *)
(* call d2d makes on a power of two (mmShift is 0 for these, but for the   *)
(* smallest).                                                              *)
(***************************************************************************)
\* 1, 2^52, 2^52 + 1 and the largest m2
MulShiftAllMantissas == { <<1>>, Two(52), BnAdd(Two(52), <<1>>), BnSub(Two(53), <<1>>) }

\* 1, 2^123, the largest multiplier, one with the bits 10 to 74 set, and the
\* entry of 5^0 of the inverse table
MulShiftAllMultipliers ==
  { SplitWords(<<1>>), SplitWords(Two(123)), SplitWords(BnSub(Two(124), <<1>>)),
    SplitWords(BnShl(BnSub(Two(65), <<1>>), 10)), DOUBLE_POW5_INV_SPLIT(0) }

\* the shifts d2d passes
MulShiftAllShifts == 114 .. 122

MulShiftAllChosen ==
  { [m |-> m, mul |-> mul, j |-> j, mmShift |-> mmShift, d2d |-> FALSE] :
      m \in MulShiftAllMantissas, mul \in MulShiftAllMultipliers,
      j \in MulShiftAllShifts, mmShift \in {0, 1} }

\* the exponent fields of the powers of two
MulShiftAllExponents == 1 .. 2046

MulShiftAllOfD2d(a) == [m |-> a.m, mul |-> a.mul, j |-> a.j, mmShift |-> a.mmShift, d2d |-> TRUE]

InitMulShiftAll ==
  /\ ieeeMantissa = <<>>
  /\ ieeeExponent = 0
  /\ fmt = NoFormat
  /\ precision = 0
  /\ bufLen = 0
  /\ buf = <<>>
  /\ ret = <<>>
  /\ v = <<>>
  /\ prev = <<>>
  /\ \/ loop \in MulShiftAllChosen
     \/ \E e \in MulShiftAllExponents :
          loop = MulShiftAllOfD2d(d2dMulShiftAllArgs(d2dDecode(<<>>, e)))
  /\ steps = 0
  /\ pc = "call"

MulShiftAllReturn(t, build) ==
  /\ pc = "call"
  /\ ret' = <<t>>
  /\ pc' = build
  /\ UNCHANGED <<ieeeMantissa, ieeeExponent, fmt, precision, bufLen, buf, v, prev, steps, loop>>

\* the call in the build with _M_X64
MulShiftAllX64 == MulShiftAllReturn(mulShiftAll(loop.m, loop.mul, loop.j, loop.mmShift), "x64")

\* the call in a build without _M_X64
MulShiftAllShared ==
  \E build \in Builds \ {"x64"} :
    MulShiftAllReturn(mulShiftAll_Shared(build, loop.m, loop.mul, loop.j, loop.mmShift), build)

NextMulShiftAll == MulShiftAllX64 \/ MulShiftAllShared

SpecMulShiftAll == InitMulShiftAll /\ [][NextMulShiftAll]_vars

(***************************************************************************)
(* to_chars in fixed format on the shortest decimals of the doubles        *)
(* nearest to the powers of ten 10^0 .. 10^308, with a range that lacks    *)
(* one byte to hold the integer written in full or, for some of them,      *)
(* holds it exactly.  loop holds the power e.                              *)
(***************************************************************************)
\* the number of bits of x > 0
BitLength(x) ==
  LIMB_BITS * (Len(x) - 1)
    + (CHOOSE k \in 1 .. LIMB_BITS : Pow2Small(k - 1) <= x[Len(x)] /\ x[Len(x)] < Pow2Small(k))

\* the number of decimal digits of x > 0
DecimalLength(x) ==
  LET n0 == ((BitLength(x) - 1) * 1233) \div 4096
  IN  CHOOSE n \in n0 + 1 .. n0 + 3 : BnLe(Pow10(n - 1), x) /\ BnLt(x, Pow10(n))

\* x rounded to 53 bits, to nearest with ties to even, as q * 2^shift for a
\* number x of more than 53 bits
Rounded53(x, shift, q) ==
  IF \/ BnLt(Two(shift - 1), BnSub(x, BnShl(q, shift)))
     \/ (BnSub(x, BnShl(q, shift)) = Two(shift - 1) /\ ~BnIsEven(q))
  THEN BnAdd(q, <<1>>) ELSE q

\* the double nearest to the integer x, 1 <= x < 2^1024: its fields and its value
NearestFields(x, shift, q) ==
  IF q = Two(53)
  THEN [mantissa |-> <<>>, exponent |-> shift + 53 + DOUBLE_BIAS, value |-> BnShl(q, shift)]
  ELSE [mantissa |-> BnSub(q, Two(52)), exponent |-> shift + 52 + DOUBLE_BIAS, value |-> BnShl(q, shift)]

NearestDouble(x) ==
  IF BitLength(x) <= 53
  THEN [mantissa |-> BnSub(BnShl(x, 53 - BitLength(x)), Two(52)),
        exponent |-> BitLength(x) - 1 + DOUBLE_BIAS, value |-> x]
  ELSE NearestFields(x, BitLength(x) - 53,
                     Rounded53(x, BitLength(x) - 53, BnShr(x, BitLength(x) - 53)))

\* the powers of ten that are finite doubles when rounded
PowerExponents == 0 .. 308

InitPowerOf(e, d, short) ==
  /\ ieeeMantissa = d.mantissa
  /\ ieeeExponent = d.exponent
  /\ bufLen = DecimalLength(d.value) - short
  /\ buf = Blank(DecimalLength(d.value) - short)
  /\ loop = [e |-> e]

\* the powers for which the range given holds the integer: those up to 10^40,
\* four of which are written by Ryu's digits alone, and a few large ones
PowersWritten == 0 .. 40 \cup {99, 100, 200, 308}

InitPowers ==
  /\ \E e \in PowerExponents, short \in {0, 1} :
       /\ short = 0 => e \in PowersWritten
       /\ InitPowerOf(e, NearestDouble(Pow10(e)), short)
  /\ fmt = "fixed"
  /\ precision = 0
  /\ ret = <<>>
  /\ v = <<>>
  /\ prev = <<>>
  /\ steps = 0
  /\ pc = "call"

\* to_chars(First, Last, v, Fmt, f), called on the shortest decimal v of the double
ToChars ==
  /\ pc = "call"
  /\ Return(d2sPrint(buf, bufLen, d2sDecimal(ieeeMantissa, ieeeExponent), fmt,
                     ieeeMantissa, ieeeExponent))
  /\ pc' = "done"
  /\ UNCHANGED <<ieeeMantissa, ieeeExponent, fmt, precision, bufLen, prev, steps, loop>>

NextPowers == ToChars

SpecPowers == InitPowers /\ [][NextPowers]_vars

(***************************************************************************)
(* The divisions by a constant of the builds without _WIN64: one call of   *)
(* div5, div10, div100, div1e8 or div1e9 on a 64-bit x.                    *)
(***************************************************************************)
\* the largest multiple of 10^n below 2^64
LastMultiple(n) == BnMulPow10(BnDivPow10(BnSub(Two(64), <<1>>), n), n)

\* 0, the powers of two and of ten with their predecessors, the largest
\* multiple of each divisor with its predecessor, and the largest x
DivArguments ==
  { <<>>, BnSub(Two(64), <<1>>), BnSub(Two(64), <<2>>) }
  \cup { Two(k) : k \in 0 .. 63 } \cup { BnSub(Two(k), <<1>>) : k \in 1 .. 63 }
  \cup { Pow10(k) : k \in 1 .. 19 } \cup { BnSub(Pow10(k), <<1>>) : k \in 1 .. 19 }
  \cup { LastMultiple(n) : n \in {1, 2, 8, 9} }
  \cup { BnSub(LastMultiple(n), <<1>>) : n \in {1, 2, 8, 9} }
  \cup { BnMulSmall(BnDivSmall(BnSub(Two(64), <<1>>), 5), 5),
         BnSub(BnMulSmall(BnDivSmall(BnSub(Two(64), <<1>>), 5), 5), <<1>>) }

InitDiv ==
  /\ ieeeMantissa = <<>>
  /\ ieeeExponent = 0
  /\ fmt = NoFormat
  /\ precision = 0
  /\ bufLen = 0
  /\ buf = <<>>
  /\ ret = <<>>
  /\ v = <<>>
  /\ prev = <<>>
  /\ \E x \in DivArguments : loop = [x |-> x]
  /\ steps = 0
  /\ pc = "call"

DivReturn(routine, q) ==
  /\ pc = "call"
  /\ ret' = <<q>>
  /\ pc' = routine
  /\ UNCHANGED <<ieeeMantissa, ieeeExponent, fmt, precision, bufLen, buf, v, prev, steps, loop>>

Div5 == DivReturn("div5", div5_umulh(loop.x))
Div10 == DivReturn("div10", div10_umulh(loop.x))
Div100 == DivReturn("div100", div100_umulh(loop.x))
Div1e8 == DivReturn("div1e8", div1e8_umulh(loop.x))
Div1e9 == DivReturn("div1e9", div1e9_umulh(loop.x))

NextDiv == Div5 \/ Div10 \/ Div100 \/ Div1e8 \/ Div1e9

SpecDiv == InitDiv /\ [][NextDiv]_vars

(***************************************************************************)
(* pow5bits, log10Pow2 and log10Pow5 called on 0, 1, 2, .. up to the       *)
(* largest argument each accepts, and the arguments that d2d, d2fixed and  *)
(* d2exp pass to them for the exponent fields 0, 1, .. 2046.  loop holds   *)
(* the function fn and its argument e, with the power pow = 5^e or 2^e,    *)
(* the number digits of its decimal digits and ten = 10^digits; or, for    *)
(* fn = "args", the arguments passed for ieeeExponent.                     *)
(***************************************************************************)
LogArgs(ieeeExp) ==
  [log10Pow2 |-> d2dLogArgs(d2dDecode(<<1>>, ieeeExp).e2).log10Pow2
                   \cup lengthForIndexLogArgs(FixedE2(ieeeExp)),
   log10Pow5 |-> d2dLogArgs(d2dDecode(<<1>>, ieeeExp).e2).log10Pow5,
   pow5bits |-> d2dLogArgs(d2dDecode(<<1>>, ieeeExp).e2).pow5bits]

InitLogs ==
  /\ ieeeMantissa = <<>>
  /\ ieeeExponent = 0
  /\ fmt = NoFormat
  /\ precision = 0
  /\ bufLen = 0
  /\ buf = <<>>
  /\ v = <<>>
  /\ prev = <<>>
  /\ \/ /\ loop = [fn |-> "pow5bits", e |-> 0, pow |-> <<1>>, ten |-> <<10>>, digits |-> 1]
        /\ ret = <<pow5bits32(0)>>
     \/ /\ loop = [fn |-> "log10Pow2", e |-> 0, pow |-> <<1>>, ten |-> <<10>>, digits |-> 1]
        /\ ret = <<log10Pow2_32(0)>>
     \/ /\ loop = [fn |-> "log10Pow5", e |-> 0, pow |-> <<1>>, ten |-> <<10>>, digits |-> 1]
        /\ ret = <<log10Pow5_32(0)>>
     \/ /\ loop = [fn |-> "args", args |-> LogArgs(0)]
        /\ ret = <<>>
  /\ steps = 0
  /\ pc = "call"

\* the next power, pow being the present one times the base
NextPower(fn, e, pow) ==
  IF BnLe(loop.ten, pow)
  THEN [fn |-> fn, e |-> e, pow |-> pow, ten |-> BnMulSmall(loop.ten, 10), digits |-> loop.digits + 1]
  ELSE [fn |-> fn, e |-> e, pow |-> pow, ten |-> loop.ten, digits |-> loop.digits]

LogsCalled(fn, last, base, value) ==
  /\ loop.fn = fn
  /\ loop.e < last
  /\ loop' = NextPower(fn, loop.e + 1, BnMulSmall(loop.pow, base))
  /\ ret' = <<value>>
  /\ UNCHANGED <<ieeeMantissa, ieeeExponent, fmt, precision, bufLen, buf, v, prev, steps, pc>>

Pow5bitsNext == LogsCalled("pow5bits", pow5bitsLast, 5, pow5bits32(loop.e + 1))
Log10Pow2Next == LogsCalled("log10Pow2", log10Pow2Last, 2, log10Pow2_32(loop.e + 1))
Log10Pow5Next == LogsCalled("log10Pow5", log10Pow5Last, 5, log10Pow5_32(loop.e + 1))

\* the conversions on a double of the next exponent field
LogArgsNext ==
  /\ loop.fn = "args"
  /\ ieeeExponent < 2046
  /\ ieeeExponent' = ieeeExponent + 1
  /\ loop' = [fn |-> "args", args |-> LogArgs(ieeeExponent + 1)]
  /\ UNCHANGED <<ieeeMantissa, fmt, precision, bufLen, buf, ret, v, prev, steps, pc>>

NextLogs == Pow5bitsNext \/ Log10Pow2Next \/ Log10Pow5Next \/ LogArgsNext

SpecLogs == InitLogs /\ [][NextLogs]_vars

(***************************************************************************)
(* IEEE 754 binary64 as exact arithmetic, for stating the claims.          *)
(* A scaled number [n, e2, e10] stands for n * 2^e2 * 10^e10.              *)
(***************************************************************************)
ScaleUp(x, e2, e10) == BnMulPow10(BnShl(x.n, x.e2 - e2), x.e10 - e10)

\* -1, 0, 1 as a < b, a = b, a > b
CmpScaled(a, b) ==
  LET e2 == Min(a.e2, b.e2)
      e10 == Min(a.e10, b.e10)
  IN  BnCmp(ScaleUp(a, e2, e10), ScaleUp(b, e2, e10))

\* the significand and binary exponent of the double: its value is m * 2^e
IeeeSignificand(m, e) == IF e = 0 THEN m ELSE BnAdd(Two(52), m)
IeeeBinaryExponent(e) == (IF e = 0 THEN 1 ELSE e) - 1075

\* the value mantissa * 10^exponent of a floating decimal
DecimalValue(d) == [n |-> d.mantissa, e2 |-> 0, e10 |-> d.exponent]

\* The decimal n * 10^e10 rounds (to nearest, ties to even) to the double (m, e):
\* it lies between the midpoints to the neighbouring doubles, a midpoint itself
\* counting only when the significand is even.
RoundsTo(n, e10, m, e) ==
  LET sig == IeeeSignificand(m, e)
      gapBelow == IF m = <<>> /\ e > 1 THEN <<1>> ELSE <<2>>
      lower == [n |-> BnSub(BnShl(sig, 2), gapBelow), e2 |-> IeeeBinaryExponent(e) - 2, e10 |-> 0]
      upper == [n |-> BnAdd(BnShl(sig, 2), <<2>>), e2 |-> IeeeBinaryExponent(e) - 2, e10 |-> 0]
      x == [n |-> n, e2 |-> 0, e10 |-> e10]
      lo == CmpScaled(lower, x)
      hi == CmpScaled(x, upper)
      even == BnIsEven(sig)
  IN  /\ lo < 0 \/ (lo = 0 /\ even)
      /\ hi < 0 \/ (hi = 0 /\ even)

Converted == pc = "done" /\ Len(v) = 1

Positive == ~(ieeeMantissa = <<>> /\ ieeeExponent = 0)

\* C1: the decimal mantissa * 10^exponent that the shortest conversion (the
\* small-integer path or d2d) produces for a finite double d > 0 rounds, to
\* nearest with ties to even, to d itself.
C1_RoundTrip ==
  (Converted /\ Positive) =>
    RoundsTo(v[1].mantissa, v[1].exponent, ieeeMantissa, ieeeExponent)

\* a subnormal and a 17-digit result of d2d have been converted
C1_Witness ==
  /\ Converted
  /\ ieeeExponent = 0 /\ ieeeMantissa # <<>>
  /\ decimalLength17(v[1].mantissa) = 17

\* C2: no decimal with fewer significant digits than the returned mantissa
\* rounds to d.  With len digits returned, a shorter decimal is a multiple of
\* 10^(exponent+1), and the two nearest of those are tested, or it is at most
\* (10^(len-1) - 1) * 10^exponent, the largest of which is tested.
C2_Shortest ==
  (Converted /\ Positive) =>
    LET out == v[1].mantissa
        exp == v[1].exponent
        len == decimalLength17(out)
        k0 == BnDivSmall(out, 10)
    IN  /\ ~RoundsTo(k0, exp + 1, ieeeMantissa, ieeeExponent)
        /\ ~RoundsTo(BnAdd(k0, <<1>>), exp + 1, ieeeMantissa, ieeeExponent)
        /\ ~RoundsTo(BnSub(Pow10(len - 1), <<1>>), exp, ieeeMantissa, ieeeExponent)

\* d2d cut a double with a long exact expansion down to a single digit
C2_Witness ==
  /\ Converted
  /\ ieeeExponent = 1099
  /\ v[1] = [mantissa |-> <<1>>, exponent |-> 23]

\* C3: of two neighbouring finite non-negative doubles a < b the decimal
\* produced for a is at most the decimal produced for b.
C3_Monotonic ==
  (Converted /\ Len(prev) = 1) =>
    CmpScaled(DecimalValue(prev[1]), DecimalValue(v[1])) <= 0

\* two neighbours got decimals of different lengths, in increasing order
C3_Witness ==
  /\ Converted /\ Len(prev) = 1
  /\ prev[1].exponent # v[1].exponent
  /\ CmpScaled(DecimalValue(prev[1]), DecimalValue(v[1])) < 0

(***************************************************************************)
(* Decimal texts as exact arithmetic, for stating the claims on the        *)
(* characters written.                                                     *)
(***************************************************************************)
\* x < 10^n as n digit characters, the most significant first
RECURSIVE DigitsOfWidth(_, _)
DigitsOfWidth(x, n) ==
  IF n <= 4
  THEN [i \in 1 .. n |-> DecimalDigits[((BnSmall(x) \div (10 ^ (n - i))) % 10) + 1]]
  ELSE LET h == n \div 2
           q == BnDivPow10(x, h)
       IN  DigitsOfWidth(q, n - h) \o DigitsOfWidth(BnSub(x, BnMulPow10(q, h)), h)

\* x in decimal, without leading zeros
DecimalString(x) == IF x = <<>> THEN <<"0">> ELSE DigitsOfWidth(x, DecimalLength(x))

\* A / (2^a * 10^c) rounded to the nearest integer, ties to even
RoundHalfEven(A, a, c) ==
  LET twice == BnShl(A, 1)
      Q == BnShr(BnDivPow10(twice, c), a)
      exact == BnMulPow10(BnShl(Q, a), c) = twice
      F == BnShr(Q, 1)
  IN  IF ~BnIsEven(Q) /\ (~exact \/ ~BnIsEven(F)) THEN BnAdd(F, <<1>>) ELSE F

\* digits with a '.' before the last p of them
PointBefore(d, p) ==
  IF p = 0 THEN d
  ELSE SubSeq(d, 1, Len(d) - p) \o <<".">> \o SubSeq(d, Len(d) - p + 1, Len(d))

\* the double (m, e) times 10^p, rounded half to even, printed with p fractional digits
ExactFixed(m, e, p) ==
  LET sig == IeeeSignificand(m, e)
      e2 == IeeeBinaryExponent(e)
      N == RoundHalfEven(BnMulPow10(BnShl(sig, Max(e2, 0)), p), Max(0 - e2, 0), 0)
      width == Max(IF N = <<>> THEN 1 ELSE DecimalLength(N), p + 1)
  IN  PointBefore(DigitsOfWidth(N, width), p)

\* 'e', the sign, and at least two digits of the exponent
ExponentText(exp) ==
  <<"e", IF exp < 0 THEN "-" ELSE "+">>
    \o (IF exp < 0 THEN DigitsOfWidth(BnOf(0 - exp), IF 0 - exp >= 100 THEN 3 ELSE 2)
        ELSE DigitsOfWidth(BnOf(exp), IF exp >= 100 THEN 3 ELSE 2))

\* the digits d with a '.' after the first, if more follow, and the exponent
ScientificText(d, exp) ==
  <<d[1]>> \o (IF Len(d) > 1 THEN <<".">> \o Tail(d) ELSE <<>>) \o ExponentText(exp)

\* the layout of the reference implementation of Ryu: 'E' and the exponent as
\* a plain integer
ShortText(d, exp) ==
  <<d[1]>> \o (IF Len(d) > 1 THEN <<".">> \o Tail(d) ELSE <<>>) \o <<"E">>
    \o (IF exp < 0 THEN <<"-">> \o DecimalString(BnOf(0 - exp)) ELSE DecimalString(BnOf(exp)))

\* floor(log10) of the double (m, e) > 0
DecimalExponent(m, e) ==
  LET sig == IeeeSignificand(m, e)
      val == [n |-> sig, e2 |-> IeeeBinaryExponent(e), e10 |-> 0]
      e0 == ((BitLength(sig) - 1 + IeeeBinaryExponent(e)) * 1233) \div 4096
  IN  CHOOSE k \in e0 - 1 .. e0 + 2 :
        /\ CmpScaled([n |-> <<1>>, e2 |-> 0, e10 |-> k], val) <= 0
        /\ CmpScaled(val, [n |-> <<1>>, e2 |-> 0, e10 |-> k + 1]) < 0

\* the double (m, e) rounded half to even to p + 1 significant digits, in
\* scientific layout
ExactExp(m, e, p) ==
  IF m = <<>> /\ e = 0
  THEN ScientificText([i \in 1 .. p + 1 |-> "0"], 0)
  ELSE LET sig == IeeeSignificand(m, e)
           e2 == IeeeBinaryExponent(e)
           E == DecimalExponent(m, e)
           N == RoundHalfEven(BnMulPow10(BnShl(sig, Max(e2, 0)), Max(p - E, 0)),
                              Max(0 - e2, 0), Max(E - p, 0))
           carried == N = Pow10(p + 1)
       IN  ScientificText(DigitsOfWidth(IF carried THEN Pow10(p) ELSE N, p + 1),
                          IF carried THEN E + 1 ELSE E)

Done == pc = "done"

IsDouble(d) == ieeeMantissa = d[1] /\ ieeeExponent = d[2]

\* the call returned errc{}
Ok == Done /\ ret.ec = NoError

\* the characters of [First, ptr)
Text == SubSeq(buf, 1, ret.ptr)

Characters(s) == {s[i] : i \in 1 .. Len(s)}

\* the bytes of b that have been written
Written(b) == {i \in 1 .. Len(b) : b[i] # ""}

\* the number of '0' characters a digit string ends with
TrailingZeros(d) ==
  CHOOSE k \in 0 .. Len(d) :
    /\ \A j \in 1 .. k : d[Len(d) - j + 1] = "0"
    /\ k < Len(d) => d[Len(d) - k] # "0"

\* the double is an integer n, 1 <= n < 2^53
IsSmallInteger ==
  /\ ieeeExponent >= 1023 /\ ieeeExponent <= 1075
  /\ BnShl(BnShr(IeeeSignificand(ieeeMantissa, ieeeExponent), 1075 - ieeeExponent),
           1075 - ieeeExponent) = IeeeSignificand(ieeeMantissa, ieeeExponent)

IntegerValue == BnShr(IeeeSignificand(ieeeMantissa, ieeeExponent), 1075 - ieeeExponent)

\* C4: for a finite double d >= 0 and a precision p, d2fixed(d, p) writes the
\* exact value of d rounded half to even to p fractional digits: the integer
\* part without leading zeros ("0" if it is zero), a '.' iff p > 0, and p
\* digits; the returned length is the number of characters written.
C4_FixedExact ==
  Done =>
    /\ buf = ExactFixed(ieeeMantissa, ieeeExponent, precision)
    /\ ret.ptr = Len(buf)

\* 0.125 was printed with two fractional digits: the tie went to the even 0.12
C4_Witness ==
  /\ Done
  /\ IsDouble(<<<<>>, 1020>>) /\ precision = 2
  /\ buf = <<"0", ".", "1", "2">>

\* C5: for a finite double d >= 0 and a precision p, d2exp(d, p) writes one
\* leading digit (nonzero unless d is zero), a '.' iff p > 0, p further digits
\* that are the exact value of d rounded half to even to p + 1 significant
\* digits, then 'e', a sign and the decimal exponent of the rounded value in
\* at least two digits; the returned length is the number of characters written.
C5_ExpExact ==
  Done =>
    /\ buf = ExactExp(ieeeMantissa, ieeeExponent, precision)
    /\ ret.ptr = Len(buf)

\* 9.5 was printed with no fractional digit: the tie went up to the even 10,
\* which moved the exponent
C5_Witness ==
  /\ Done
  /\ IsDouble(<<Bits52(12582912, 0), 1026>>) /\ precision = 0
  /\ buf = <<"1", "e", "+", "0", "1">>

\* C6: for an integer n with 1 <= n < 2^53 and no explicit format, the decimal
\* handed to the formatter is n with its k trailing decimal zeros moved into
\* the exponent, and the text written is n's decimal digits with no exponent
\* when k <= 4 (one significant digit) or k <= 5 (several), and otherwise the
\* significant digits in scientific layout with 'e', '+' and two exponent digits.
C6_SmallInteger ==
  (Ok /\ fmt = NoFormat /\ IsSmallInteger) =>
    LET digits == DecimalString(IntegerValue)
        k == TrailingZeros(digits)
        significant == SubSeq(digits, 1, Len(digits) - k)
    IN  /\ v = <<[mantissa |-> BnDivPow10(IntegerValue, k), exponent |-> k]>>
        /\ Text = IF k <= (IF Len(significant) = 1 THEN 4 ELSE 5) THEN digits
                  ELSE ScientificText(significant, Len(digits) - 1)

\* 1e15 was printed as "1e+15" and 12e5 as "1200000"
C6_Witness ==
  /\ Ok /\ fmt = NoFormat /\ IsSmallInteger
  /\ v[1].exponent = 15
  /\ Text = <<"1", "e", "+", "1", "5">>

\* C6 as stated: the significant digits of n, normalised to one digit before
\* the point, followed by 'E' and the exponent ("1E0" for 1)
C6_Original ==
  (Ok /\ fmt = NoFormat /\ IsSmallInteger) =>
    LET digits == DecimalString(IntegerValue)
    IN  Text = ShortText(SubSeq(digits, 1, Len(digits) - TrailingZeros(digits)), Len(digits) - 1)

\* C7: for +0.0 the entry point writes the single character "0" unless the
\* scientific format is requested, and "0e+00" when it is.
C7_Zero ==
  (Ok /\ IsDouble(<<<<>>, 0>>)) =>
    Text = IF fmt = "scientific" THEN <<"0", "e", "+", "0", "0">> ELSE <<"0">>

\* zero was printed with no explicit format into a range with room for "0E0"
C7_Witness ==
  /\ Ok /\ IsDouble(<<<<>>, 0>>)
  /\ fmt = NoFormat /\ bufLen = 3
  /\ ret.ptr = 1

\* C7 as stated: "0E0" with no explicit format, "0e+00" with scientific
C7_Original ==
  (Ok /\ IsDouble(<<<<>>, 0>>) /\ fmt \in {NoFormat, "scientific"}) =>
    Text = IF fmt = NoFormat THEN <<"0", "E", "0">> ELSE <<"0", "e", "+", "0", "0">>

\* C8: with no explicit format and with the scientific format alike, an
\* exponent is written as lowercase 'e', an explicit sign and at least two
\* digits, and never as 'E'; the scientific format always writes one, no
\* explicit format writes none in fixed layout (1.0 -> "1", 1e23 -> "1e+23",
\* 5e-324 -> "5e-324").
C8_Exponent ==
  (Ok /\ Len(v) = 1 /\ fmt \in {NoFormat, "scientific"}) =>
    LET mantissa == DecimalString(v[1].mantissa)
        hasExponent == "e" \in Characters(Text)
    IN  /\ "E" \notin Characters(Text)
        /\ fmt = "scientific" => hasExponent
        /\ hasExponent => Text = ScientificText(mantissa, v[1].exponent + Len(mantissa) - 1)
        /\ ~hasExponent => Characters(Text) \subseteq Characters(DecimalDigits) \cup {"."}
        /\ (fmt = NoFormat /\ IsDouble(<<<<>>, 1023>>)) => Text = <<"1">>
        /\ (fmt = NoFormat /\ IsDouble(<<Bits52(21708977, 65096438), 1099>>)) =>
             Text = <<"1", "e", "+", "2", "3">>
        /\ (fmt = NoFormat /\ IsDouble(<<<<1>>, 0>>)) => Text = <<"5", "e", "-", "3", "2", "4">>

\* 1e23 was printed with no explicit format, in scientific layout
C8_Witness ==
  /\ Ok /\ fmt = NoFormat
  /\ IsDouble(<<Bits52(21708977, 65096438), 1099>>)
  /\ "+" \in Characters(Text)

\* C8 as stated: with no explicit format 'E' and the exponent without '+'
\* or padding, with the scientific format 'e' and an explicit sign
C8_Original ==
  (Ok /\ Len(v) = 1 /\ fmt \in {NoFormat, "scientific"}) =>
    LET mantissa == DecimalString(v[1].mantissa)
    IN  Text = IF fmt = NoFormat
               THEN ShortText(mantissa, v[1].exponent + Len(mantissa) - 1)
               ELSE ScientificText(mantissa, v[1].exponent + Len(mantissa) - 1)

\* a range long enough for every text of the model
BigBuffer == 330

\* the number of characters the conversion writes when it has room
OutputLength ==
  Cardinality(Written(d2s_buffered_n(Blank(BigBuffer), BigBuffer, ieeeMantissa, ieeeExponent,
                                     fmt).b))

\* C9: for a conversion that ends in the formatter or in the zero case of the
\* entry point: if the range is shorter than the output, the result is
\* value_too_large with ptr = Last and no byte of the range written; otherwise
\* the result is errc{}, the output fills [First, ptr) and nothing else is
\* written.
C9_BufferTooSmall ==
  (Done /\ (Len(v) = 1 \/ IsDouble(<<<<>>, 0>>))) =>
    /\ Len(buf) = bufLen
    /\ IF bufLen < OutputLength
       THEN ret = [ptr |-> bufLen, ec |-> value_too_large] /\ Written(buf) = {}
       ELSE ret = [ptr |-> OutputLength, ec |-> NoError] /\ Written(buf) = 1 .. OutputLength

\* pi in scientific layout, 21 characters, did not fit a range of 20
C9_Witness ==
  /\ Done /\ Len(v) = 1
  /\ IsDouble(<<Bits52(38305493, 4467992), 1024>>)
  /\ fmt = "scientific" /\ bufLen = 20
  /\ ret.ec = value_too_large

\* C10: with no explicit format the formatter writes the fixed layout, which
\* has no exponent, iff lower <= ryuExp <= upper with (lower, upper) = (-3, 4)
\* for a one-digit mantissa and (-(olength + 3), 5) otherwise, and the
\* scientific layout in every other case.
C10_DefaultLayout ==
  (Ok /\ Len(v) = 1 /\ fmt = NoFormat) =>
    LET olength == Len(DecimalString(v[1].mantissa))
        lower == IF olength = 1 THEN -3 ELSE -(olength + 3)
        upper == IF olength = 1 THEN 4 ELSE 5
    IN  ("e" \notin Characters(Text)) <=> (lower <= v[1].exponent /\ v[1].exponent <= upper)

\* 1e5, one digit with ryuExp = 5, was printed in scientific layout
C10_Witness ==
  /\ Ok /\ fmt = NoFormat
  /\ v = <<[mantissa |-> <<1>>, exponent |-> 5]>>
  /\ Text = <<"1", "e", "+", "0", "5">>

\* C11: with the general format the formatter writes the fixed layout, which
\* has no exponent, iff -4 <= scientificExponent < 6 with scientificExponent =
\* ryuExp + olength - 1, and the scientific layout in every other case.
C11_GeneralLayout ==
  (Ok /\ Len(v) = 1 /\ fmt = "general") =>
    LET olength == Len(DecimalString(v[1].mantissa))
        scientificExponent == v[1].exponent + olength - 1
    IN  ("e" \notin Characters(Text)) <=> (-4 <= scientificExponent /\ scientificExponent < 6)

\* 12e5, with scientificExponent = 6, was printed in scientific layout
C11_Witness ==
  /\ Ok /\ fmt = "general"
  /\ v = <<[mantissa |-> <<12>>, exponent |-> 5]>>
  /\ Text = <<"1", ".", "2", "e", "+", "0", "6">>

\* C12: in scientific layout the text is the first mantissa digit, a '.' and
\* the remaining digits iff olength > 1, 'e', '+' or '-', and
\* |scientificExponent| in exactly two digits below 100 and exactly three
\* otherwise; the returned length is olength + (olength > 1) + 4 or 5.
C12_ScientificLayout ==
  (Ok /\ Len(v) = 1 /\ fmt = "scientific") =>
    LET mantissa == DecimalString(v[1].mantissa)
        olength == Len(mantissa)
        scientificExponent == v[1].exponent + olength - 1
    IN  /\ olength \in 1 .. 17
        /\ Text = ScientificText(mantissa, scientificExponent)
        /\ ret.ptr = olength + Bool2Int(olength > 1)
                      + (IF -100 < scientificExponent /\ scientificExponent < 100 THEN 4 ELSE 5)

\* the smallest normal double: 17 digits and a three-digit exponent
C12_Witness ==
  /\ Ok /\ fmt = "scientific"
  /\ IsDouble(<<<<>>, 1>>)
  /\ ret.ptr = 23
  /\ SubSeq(buf, 18, 23) = <<"4", "e", "-", "3", "0", "8">>

\* x without its trailing zero bits
OddPart(x) == BnShr(x, CHOOSE k \in 0 .. 63 : BnShl(BnShr(x, k), k) = x /\ ~BnIsEven(BnShr(x, k)))

\* the double is a whole number
IsWhole ==
  \/ IeeeBinaryExponent(ieeeExponent) >= 0
  \/ /\ ieeeExponent >= 1023
     /\ BnModPow2(IeeeSignificand(ieeeMantissa, ieeeExponent), 0 - IeeeBinaryExponent(ieeeExponent)) = <<>>

\* the value of a whole double
WholeValue ==
  IF IeeeBinaryExponent(ieeeExponent) >= 0
  THEN BnShl(IeeeSignificand(ieeeMantissa, ieeeExponent), IeeeBinaryExponent(ieeeExponent))
  ELSE BnShr(IeeeSignificand(ieeeMantissa, ieeeExponent), 0 - IeeeBinaryExponent(ieeeExponent))

\* C13: _Max_shifted_mantissa[e] is floor((2^53 - 1) / 5^e) for e = 0..22;
\* when ryuExp > 0 and the test ryuExp <= 22 and (mantissa >> ctz(mantissa)) <=
\* _Max_shifted_mantissa[ryuExp] passes, mantissa * 10^ryuExp is the exact
\* value of the double; and every text in fixed layout of a whole double,
\* whether Ryu's digits with zeros or the delegation to d2fixed with
\* precision 0, is its exact decimal expansion.
C13_FixedInteger ==
  /\ \A e \in 0 .. 22 :
       Max_shifted_mantissa[e + 1] = BnDivPow5(BnSub(Two(53), <<1>>), e)
  /\ (Done /\ Len(v) = 1 /\ v[1].exponent > 0) =>
       ((/\ v[1].exponent <= 22
         /\ BnLe(OddPart(v[1].mantissa), BnDivPow5(BnSub(Two(53), <<1>>), v[1].exponent)))
        => /\ IsWhole
           /\ BnMulPow10(v[1].mantissa, v[1].exponent) = WholeValue)
  /\ (Ok /\ ~IsDouble(<<<<>>, 0>>) /\ IsWhole /\ "e" \notin Characters(Text)) =>
       Text = DecimalString(WholeValue)

\* 2^60: Ryu's 1152921504606847 * 10^3 is not the double, d2fixed printed it
C13_Witness ==
  /\ Ok /\ fmt = NoFormat
  /\ v = <<[mantissa |-> Dec16(1152, 9215, 460, 6847), exponent |-> 3]>>
  /\ Text = DecimalString(Two(60))

(***************************************************************************)
(* The loops of d2d                                                        *)
(***************************************************************************)
\* the locals of step 4 are in order
Ordered(s) == BnLe(s.vm, s.vr) /\ BnLe(s.vr, s.vp)

\* the call is inside step 4 of d2d
InLoop == pc \in {"general", "zeros", "round", "fast100", "fast"}

\* d2d was called and has returned
Returned == pc = "done" /\ Len(v) = 1 /\ ~d2d_small_int(ieeeMantissa, ieeeExponent)[1]

\* C14: in d2d, vm <= vr <= vp holds on entry of step 4 and after every round
\* of the first and second loop of the general case, after the division by
\* 100 and after every round of the loop of the common case; the mantissa
\* returned lies between the final vm and the final vp, so that vr + 1 is
\* never above vp.  The run step by step returns what d2d returns.
C14_Interval ==
  /\ InLoop => Ordered(loop.s)
  /\ Returned =>
       /\ BnLe(loop.s.vm, v[1].mantissa)
       /\ BnLe(v[1].mantissa, loop.s.vp)
       /\ v[1] = d2d(ieeeMantissa, ieeeExponent)

\* at least three digits are removed, vr = vm, and vr + 1 = vp is returned
C14_Witness ==
  /\ Returned
  /\ loop.s.removed >= 3
  /\ loop.s.vr = loop.s.vm
  /\ v[1].mantissa = Inc64(loop.s.vr)
  /\ v[1].mantissa = loop.s.vp

\* C15: the mantissa d2s_buffered_n hands to to_chars, computed by d2d or taken
\* from d2d_small_int, is not zero and is below 10^17, the precondition of
\* decimalLength17.
C15_Mantissa ==
  Converted /\ Positive =>
    /\ v[1].mantissa # <<>>
    /\ BnLt(v[1].mantissa, Pow10(17))

\* d2d returns 17 digits
C15_Witness ==
  /\ Converted
  /\ ~d2d_small_int(ieeeMantissa, ieeeExponent)[1]
  /\ decimalLength17(v[1].mantissa) = 17

\* q of the e2 >= 0 branch of step 3
d2dQ(d) == log10Pow2(d.e2) - Bool2Int(d.e2 > 3)

\* the current double takes the e2 >= 0 branch of step 3 with q >= 22
LargeQ(d) == d.e2 >= 0 /\ d2dQ(d) >= 22

\* C16: if e2 >= 0 and q >= 22, d2d returns the decimal it would return with
\* the tests on multiples of 5^q applied for every q.
C16_Q21Safe ==
  LargeQ(d2dDecode(ieeeMantissa, ieeeExponent)) =>
    d2dSteps(d2dScale(d2dDecode(ieeeMantissa, ieeeExponent)))
      = d2dSteps(d2dScale_AllQ(d2dDecode(ieeeMantissa, ieeeExponent)))

\* q >= 22, d2d has taken the common case and returned, and the tests applied
\* for every q find a multiple of 5^q and take the general case
C16_Witness ==
  /\ Returned
  /\ LargeQ(d2dDecode(ieeeMantissa, ieeeExponent))
  /\ ~d2dIsGeneral(loop.c)
  /\ d2dIsGeneral(d2dScale_AllQ(d2dDecode(ieeeMantissa, ieeeExponent)))

\* C17: entered with vm <= vr <= vp and no trailing-zero flag, the common case
\* of step 4 returns the output and the count of removed digits that the
\* general case returns.
C17_FastIsGeneral ==
  /\ d2dFast(loop.c) = d2dGeneral(loop.c)
  /\ pc = "done" => v[1] = d2dResult(loop.c, d2dGeneral(loop.c))

\* two digits were removed at once, then one more, and the output is vr + 1
C17_Witness ==
  /\ pc = "done"
  /\ loop.s.removed = 3
  /\ loop.s.roundUp
  /\ v[1].mantissa = Inc64(loop.s.vr)

(***************************************************************************)
(* The rounding of d2fixed and d2exp                                       *)
(***************************************************************************)
\* the current double is not zero and d2fixed takes it with e2 < 0
NegativeE2 == Positive /\ FixedE2(ieeeExponent) < 0

\* d2fixed with e2 < 0 on the current double: what is written before the
\* rounding, and the decision roundUp
FixedWritten ==
  d2fixedBlocks(FixedM2(ieeeMantissa, ieeeExponent), FixedE2(ieeeExponent), precision,
    d2fixedHead(<<>>, FixedM2(ieeeMantissa, ieeeExponent), FixedE2(ieeeExponent), precision))

\* d * 10^(p + 1) = FixedScaled / 2^(-e2)
FixedScaled == BnMulPow10(FixedM2(ieeeMantissa, ieeeExponent), precision + 1)

\* the digit of d after the p-th fractional digit
NextDigit == BnModSmall(BnShr(FixedScaled, 0 - FixedE2(ieeeExponent)), 10)

\* d has nonzero digits beyond that digit
Beyond == BnModPow2(FixedScaled, 0 - FixedE2(ieeeExponent)) # <<>>

\* -e2 - p - 1
RequiredTwos == (0 - FixedE2(ieeeExponent)) - precision - 1

\* C18: d2fixed with e2 < 0 decides roundUp = 0 if the digit after the p-th
\* fractional digit of d is below 5, 1 if it is above 5 or is 5 with a nonzero
\* digit beyond it, 2 if it is 5 and nothing follows; nothing follows the digit
\* exactly if -e2 - p - 1 <= 0 or m2 is a multiple of 2^(-e2 - p - 1).
C18_RoundUp ==
  (Done /\ NegativeE2) =>
    /\ FixedWritten.roundUp =
         (IF NextDigit < 5 THEN 0 ELSE IF NextDigit > 5 \/ Beyond THEN 1 ELSE 2)
    /\ ~Beyond <=>
         \/ RequiredTwos <= 0
         \/ BnModPow2(FixedM2(ieeeMantissa, ieeeExponent), RequiredTwos) = <<>>

\* 0.375 printed with two fractional digits: the digit after them is 5, nothing
\* follows, m2 = 3 * 2^51 is a multiple of 2^(54 - 3), and roundUp is 2
C18_Witness ==
  /\ Done
  /\ IsDouble(<<Bits52(33554432, 0), 1021>>) /\ precision = 2
  /\ RequiredTwos = 51
  /\ FixedWritten.roundUp = 2
  /\ buf = <<"0", ".", "3", "8">>

\* every digit written is a '9' and the decision is to round up
AllNines(u) == u.roundUp # 0 /\ \A i \in 1 .. u.index : u.b[i] \in {"9", "."}

\* the place of the last character written that is neither '9' nor '.', 0 if none
FirstNonNine(u) ==
  CHOOSE k \in 0 .. u.index :
    /\ k > 0 => u.b[k] \notin {"9", "."}
    /\ \A i \in k + 1 .. u.index : u.b[i] \in {"9", "."}

\* the digits written with '1' in front, '0' for every digit and the '.' one
\* place to the right
CarriedOut(u) ==
  [i \in 1 .. u.index + 1 |-> IF i = 1 THEN "1" ELSE IF u.b[i - 1] = "." THEN "." ELSE "0"]

\* the digits written with the digit at place k one higher and '0' for every '9' after it
CarriedTo(u, k) ==
  [i \in 1 .. u.index |->
     IF i = k THEN Char(CharCode(u.b[k]) + 1 - 48)
     ELSE IF i > k /\ u.b[i] = "9" THEN "0" ELSE u.b[i]]

\* the digit at place k of the digits written is even
EvenAt(u, k) == CharCode(u.b[k]) % 2 = 0

\* d2fixed, e2 < 0, has rounded up through every digit: '1', zeros, the '.' one
\* place to the right, one character more, p digits after the '.'
FixedCarriedOut(u) ==
  AllNines(u) =>
    /\ buf = CarriedOut(u)
    /\ ret.ptr = u.index + 1
    /\ precision > 0 => buf[Len(buf) - precision] = "."

\* C19: in d2fixed with e2 < 0, if the decision is to round up and every digit
\* written is '9', the result is '1', a '0' for every digit, the '.' one place
\* to the right, one character more than was written, and p digits after the
\* '.'.  Otherwise the walk stops at the first digit it meets that is not '9':
\* if that is the last digit written, the decision is 2 and the digit is even,
\* nothing changes; in every other case the digit is one higher and the '9's
\* passed are '0', the decision 2 having become 1 at the first '9'.
C19_Carry ==
  (Done /\ NegativeE2) =>
    /\ FixedCarriedOut(FixedWritten)
    /\ (FixedWritten.roundUp # 0 /\ FirstNonNine(FixedWritten) > 0) =>
         /\ ret.ptr = FixedWritten.index
         /\ buf = IF /\ FirstNonNine(FixedWritten) = FixedWritten.index
                     /\ FixedWritten.roundUp = 2
                     /\ EvenAt(FixedWritten, FixedWritten.index)
                  THEN FixedWritten.b
                  ELSE CarriedTo(FixedWritten, FirstNonNine(FixedWritten))

\* 999999999.9999999 printed with three fractional digits: 1000000000.000
C19_Witness ==
  /\ Done
  /\ IsDouble(<<Bits52(57891135, 67108863), 1052>>) /\ precision = 3
  /\ AllNines(FixedWritten)
  /\ FixedWritten.index = 13
  /\ ret.ptr = 14
  /\ buf[11] = "."

\* C19 as stated: the decision 2 leaves the first digit that is not '9'
\* unchanged when it is even, however many '9's were passed
C19_Original ==
  (Done /\ NegativeE2) =>
    /\ FixedCarriedOut(FixedWritten)
    /\ (/\ FixedWritten.roundUp = 2
        /\ FirstNonNine(FixedWritten) > 0
        /\ EvenAt(FixedWritten, FirstNonNine(FixedWritten))) =>
         buf[FirstNonNine(FixedWritten)] = FixedWritten.b[FirstNonNine(FixedWritten)]

\* d2exp on the current double: the digits written before the rounding, the
\* decimal exponent of the first of them and the decision roundUp
ExpWritten ==
  d2expDigits(<<>>, FixedM2(ieeeMantissa, ieeeExponent), FixedE2(ieeeExponent),
              precision + 1, precision > 0)

\* the digits written with '1' for the first and '0' for the others
CarriedIn(u) ==
  [i \in 1 .. u.index |-> IF i = 1 THEN "1" ELSE IF u.b[i] = "." THEN "." ELSE "0"]

\* C20: in d2exp, if the decision is to round up and every digit written is
\* '9', the digits become '1' followed by '0's in the same places, the '.'
\* where it was, and the exponent printed is one more than the exponent of the
\* digits written; the digits take as many characters as before.  In every
\* case what follows the digits is 'e', '+' or '-' ('+' for 0), and the
\* absolute value of the exponent in two digits below 100, in three from 100.
C20_ExpCarry ==
  (Done /\ Positive) =>
    /\ ret.ptr = Len(buf)
    /\ AllNines(ExpWritten) =>
         buf = CarriedIn(ExpWritten) \o ExponentText(ExpWritten.exp + 1)
    /\ ~AllNines(ExpWritten) =>
         /\ Len(buf) > ExpWritten.index
         /\ SubSeq(buf, ExpWritten.index + 1, Len(buf)) = ExponentText(ExpWritten.exp)

\* 9.999e99 printed with two fractional digits: 9.99 was written, rounded up
\* to 1.00, and the exponent 99 became 100, printed in three digits
C20_Witness ==
  /\ Done
  /\ IsDouble(<<Bits52(9588050, 62863386), 1355>>) /\ precision = 2
  /\ AllNines(ExpWritten)
  /\ ExpWritten.exp = 99
  /\ buf = <<"1", ".", "0", "0", "e", "+", "1", "0", "0">>

(***************************************************************************)
(* The small integers, the multiplications and the approximations          *)
(***************************************************************************)
\* the value of the double is an integer n with 1 <= n < 2^53
WholeBelow53 == IsWhole /\ BnLe(<<1>>, WholeValue) /\ BnLt(WholeValue, Two(53))

\* C21: d2d_small_int returns true exactly for the doubles whose value is an
\* integer in [1, 2^53), zero, the subnormals and the values below 1 being
\* rejected; the decimal it gives has that integer as mantissa and exponent 0;
\* the loop of d2s_buffered_n that follows ends with a mantissa that is not a
\* multiple of 10 and with mantissa * 10^exponent equal to the integer.
C21_SmallInt ==
  /\ d2d_small_int(ieeeMantissa, ieeeExponent)[1] <=> WholeBelow53
  /\ d2d_small_int(ieeeMantissa, ieeeExponent)[1] =>
       d2d_small_int(ieeeMantissa, ieeeExponent)[2] = [mantissa |-> WholeValue, exponent |-> 0]
  /\ (Converted /\ WholeBelow53) =>
       /\ BnMulPow10(v[1].mantissa, v[1].exponent) = WholeValue
       /\ BnModSmall(v[1].mantissa, 10) # 0

\* 1.25 * 2^30 = 1342177280: one zero has moved into the exponent
C21_Witness ==
  /\ Converted
  /\ IsDouble(<<Bits52(16777216, 0), 1053>>)
  /\ d2d_small_int(ieeeMantissa, ieeeExponent)[1]
  /\ v = <<[mantissa |-> BnOf(134217728), exponent |-> 1]>>

\* the 192-bit multiplier of three 64-bit words, low word first
Mul192(mul) == BnAdd(mul[1], BnAdd(BnShl(mul[2], 64), BnShl(mul[3], 128)))

\* floor(m * M3 / 2^j) mod 10^9
ShiftedMod1e9(m, mul, j) == BnMod1e9(BnShr(BnMul(m, Mul192(mul)), j))

\* C22: mulShift_mod1e9(m, mul, j) is floor(m * mul / 2^j) mod 10^9, a number
\* below 10^9, for every 64-bit m, every three words mul and every j from 128
\* to 180, in the build with _M_X64 and in the build without, and the two
\* builds return the same number.
C22_Mod1e9 ==
  /\ pc \in {"x64", "chained"} =>
       /\ ret[1] = ShiftedMod1e9(loop.m, loop.mul, loop.j)
       /\ BnLt(ret[1], Pow10(9))
  /\ pc = "call" =>
       /\ loop.j \in 128 .. 180
       /\ BnOf(mulShift_mod1e9(loop.m, loop.mul, loop.j))
            = mulShift_mod1e9_Chained(loop.m, loop.mul, loop.j)

\* the build without _M_X64 has returned a nonzero block for the largest m,
\* the largest multiplier and the largest shift
C22_Witness ==
  /\ pc = "chained"
  /\ loop.j = 180
  /\ loop.m = BnSub(Two(64), <<1>>)
  /\ loop.mul = <<BnSub(Two(64), <<1>>), BnSub(Two(64), <<1>>), BnSub(Two(64), <<1>>)>>
  /\ ret[1] = ShiftedMod1e9(loop.m, loop.mul, 180)
  /\ ret[1] # <<>>

\* C23: every call of mulShift_mod1e9 that d2fixed or d2exp makes, on any finite
\* nonzero double, in the integer part or in the fraction, passes a shift j
\* with 128 <= j <= 180.
C23_ShiftRange ==
  pc \in {"d2fixed", "d2exp"} => \A j \in loop.shifts : 128 <= j /\ j <= 180

\* d2fixed on a double of [1, 2), e2 = -52: the integer part passes 180, the
\* fraction 132
C23_Witness ==
  /\ pc = "d2fixed"
  /\ ieeeExponent = DOUBLE_BIAS
  /\ loop.shifts = {180, 132}

MulShiftAllFactors(m, mmShift) ==
  {BnMulSmall(m, 4), BnAdd(BnMulSmall(m, 4), <<2>>), BnSub(BnMulSmall(m, 4), BnOf(1 + mmShift))}

\* the 128-bit multiplier of two 64-bit words, low word first
Mul128(mul) == BnAdd(mul[1], BnShl(mul[2], 64))

MulShifted(x, mul, j) == BnShr(BnMul(x, Mul128(mul)), j)

\* (vr, vp, vm) = (floor(4m*M/2^j), floor((4m+2)*M/2^j), floor((4m-1-mmShift)*M/2^j))
ExactTriple(a) ==
  [vp |-> MulShifted(BnAdd(BnMulSmall(a.m, 4), <<2>>), a.mul, a.j),
   vm |-> MulShifted(BnSub(BnMulSmall(a.m, 4), BnOf(1 + a.mmShift)), a.mul, a.j),
   vr |-> MulShifted(BnMulSmall(a.m, 4), a.mul, a.j)]

\* the same, each in 64 bits
ExactTriple64(a) ==
  [vp |-> U64(ExactTriple(a).vp), vm |-> U64(ExactTriple(a).vm), vr |-> U64(ExactTriple(a).vr)]

\* mmShift is 0, the middle word of 2m * M is 2^64 - 1 and its low word is
\* 2^63 or more: doubling the middle word with the carry of the low word gives
\* the middle word again
FullMiddleWord(a) ==
  /\ a.mmShift = 0
  /\ U64(BnShr(BnMul(BnShl(a.m, 1), Mul128(a.mul)), 64)) = BnSub(Two(64), <<1>>)
  /\ BnLe(Two(63), U64(BnMul(BnShl(a.m, 1), Mul128(a.mul))))

C27_Adjustment ==
  /\ Len(Adjustment) = 309
  /\ pc \in {"call", "done"} =>
       /\ WholeValue = NearestDouble(Pow10(loop.e)).value
       /\ DecimalLength(WholeValue) \in {loop.e, loop.e + 1}
       /\ Adjustment[loop.e + 1] = 1 <=> DecimalLength(WholeValue) = loop.e
       /\ Adjustment[loop.e + 1] = 0 <=> DecimalLength(WholeValue) = loop.e + 1
  /\ Done =>
       /\ v = <<[mantissa |-> <<1>>, exponent |-> loop.e]>>
       /\ to_charsTotalFixedLength(<<1>>, 1, loop.e) = DecimalLength(WholeValue)
       /\ bufLen = DecimalLength(WholeValue) =>
            Ok /\ ret.ptr = bufLen /\ Text = DecimalString(WholeValue)
       /\ bufLen < DecimalLength(WholeValue) =>
            ret = [ptr |-> bufLen, ec |-> value_too_large]

\* 1e23 has been written in a range of 23 bytes: 99999999999999991611392
C27_Witness ==
  /\ Ok
  /\ loop.e = 23
  /\ Adjustment[24] = 1
  /\ ret.ptr = 23
  /\ BnLt(WholeValue, Pow10(23))
  /\ Text = DecimalString(WholeValue)

\* C28 as stated: the bit counts that d2d has used in computing k are both 125.
C28_Original ==
  pc = "d2d" => (DOUBLE_POW5_INV_BITCOUNT = 125 /\ DOUBLE_POW5_BITCOUNT = 125)

\* e2 of d2d for the double of the state
StateE2 == d2dDecode(ieeeMantissa, ieeeExponent).e2

\* C28: the bit counts d2d uses are POW5_INV_BITCOUNT = 122, in
\* k = POW5_INV_BITCOUNT + pow5bits(q) - 1 of the e2 >= 0 branch, and
\* POW5_BITCOUNT = 121, in k = pow5bits(i) - POW5_BITCOUNT of the e2 < 0
\* branch: the shift passed to mulShiftAll is -e2 + q + k in the first and
\* q - k in the second.
C28_Bitcounts ==
  /\ DOUBLE_POW5_INV_BITCOUNT = 122
  /\ DOUBLE_POW5_BITCOUNT = 121
  /\ (pc = "d2d" /\ StateE2 >= 0) =>
       loop.args.j = (0 - StateE2) + loop.args.q + (122 + pow5bits(loop.args.q) - 1)
  /\ (pc = "d2d" /\ StateE2 < 0) =>
       loop.args.j = loop.args.q - (pow5bits((0 - StateE2) - loop.args.q) - 121)

\* d2d on 2^54, e2 = 0 and q = 0: k = 122 and the shift is 122; d2d would
\* pass 125 with a bit count of 125
C28_Witness ==
  /\ pc = "d2d"
  /\ ieeeMantissa = <<>>
  /\ ieeeExponent = DOUBLE_BIAS + DOUBLE_MANTISSA_BITS + 2
  /\ loop.args.q = 0
  /\ loop.args.j = 122

\* q is floor(x / d) for the divisor d = 5 * 10^n or 10^n
IsQuotient(q, x, n, five) ==
  LET d == IF five THEN BnMulSmall(Pow10(n), 5) ELSE Pow10(n)
  IN  BnLe(BnMul(q, d), x) /\ BnLt(x, BnMul(BnAdd(q, <<1>>), d))

\* C29: each of div5, div10, div100, div1e8 and div1e9 of the builds without
\* _WIN64, a multiplication and a shift, returns floor(x / divisor) for a
\* 64-bit x: the value of the division of the builds with _WIN64.
C29_Division ==
  /\ pc = "div5" => ret[1] = div5(loop.x) /\ IsQuotient(ret[1], loop.x, 0, TRUE)
  /\ pc = "div10" => ret[1] = div10(loop.x) /\ IsQuotient(ret[1], loop.x, 1, FALSE)
  /\ pc = "div100" => ret[1] = div100(loop.x) /\ IsQuotient(ret[1], loop.x, 2, FALSE)
  /\ pc = "div1e8" => ret[1] = div1e8(loop.x) /\ IsQuotient(ret[1], loop.x, 8, FALSE)
  /\ pc = "div1e9" => ret[1] = div1e9(loop.x) /\ IsQuotient(ret[1], loop.x, 9, FALSE)

\* div1e9 has returned 18446744073 for the largest x, 2^64 - 1
C29_Witness ==
  /\ pc = "div1e9"
  /\ loop.x = BnSub(Two(64), <<1>>)
  /\ ret[1] = BnAdd(BnMulPow10(BnOf(18446), 6), BnOf(744073))

\* pow has loop.digits decimal digits
HasDigits == BnLe(BnDivSmall(loop.ten, 10), loop.pow) /\ BnLt(loop.pow, loop.ten)

\* C30: pow5bits(e) is ceil(log2(5^e)), the number of bits of 5^e, for e from 1
\* to 3528, and 1 for e = 0; log10Pow2(e) is floor(log10(2^e)) for e from 0 to
\* 1650 and log10Pow5(e) is floor(log10(5^e)) for e from 0 to 2620, one less
\* than the number of decimal digits of the power; the products are below
\* 2^32; and every argument that d2d, d2fixed and d2exp pass is in these ranges.
C30_Approximations ==
  /\ loop.fn = "pow5bits" =>
       /\ ret[1] = IF loop.e = 0 THEN 1 ELSE BitLength(loop.pow)
       /\ BnLt(BnMul(BnOf(loop.e), BnOf(1217359)), Two(32))
       /\ loop.e <= 1764 => ret[1] = pow5bits(loop.e)
  /\ loop.fn = "log10Pow2" =>
       /\ loop.pow = Two(loop.e)
       /\ HasDigits
       /\ ret[1] = loop.digits - 1
       /\ BnLt(BnMul(BnOf(loop.e), BnOf(78913)), Two(32))
       /\ ret[1] = log10Pow2(loop.e)
  /\ loop.fn = "log10Pow5" =>
       /\ HasDigits
       /\ ret[1] = loop.digits - 1
       /\ BnLt(BnMul(BnOf(loop.e), BnOf(732923)), Two(32))
       /\ ret[1] = log10Pow5(loop.e)
  /\ loop.fn = "args" =>
       /\ \A e \in loop.args.pow5bits : 0 <= e /\ e <= pow5bitsLast
       /\ \A e \in loop.args.log10Pow2 : 0 <= e /\ e <= log10Pow2Last
       /\ \A e \in loop.args.log10Pow5 : 0 <= e /\ e <= log10Pow5Last

\* pow5bits has been called on 3528, whose product is above 2^31: 5^3528 has
\* 8192 bits
C30_Witness ==
  /\ loop.fn = "pow5bits"
  /\ loop.e = 3528
  /\ BitLength(loop.pow) = 8192
  /\ ret = <<8192>>

====
